---- MODULE Spec2Model ----
(***************************************************************************)
(* State-machine model of execute_code (src/api_server.py), the execution  *)
(* engine behind /api/compile: one branch per language tag, the process-   *)
(* wide sys.stdout / sys.stderr redirection of the python branch, the      *)
(* scratch files and directories of the external branches and the result   *)
(* record every branch fills in.                                           *)
(*                                                                         *)
(* Text is a sequence of tokens (strings); concatenation is \o.  A child   *)
(* process, the filesystem and the evaluated snippet are the environment:  *)
(* their outcomes are drawn from small sets with \E.                       *)
(***************************************************************************)
EXTENDS Integers, Sequences, FiniteSets, TLC

\* ------------------------------------------------------------------ bounds
MaxRequests == 2      \* calls of execute_code in one behaviour
MaxOps      == 2      \* statements of an evaluated python snippet
MaxInputs   == 2      \* length of a request's inputs list
MaxDiagLen  == 2      \* tokens of a compiler diagnostic
MaxStmts    == 3      \* statements of a sql request
MaxRuns     == 3      \* calls in one behaviour of the two-call specification
MaxJavaWords == 5     \* words of a java snippet
MaxRStmts   == 2      \* statements of an r snippet
MaxReads    == 9      \* input() calls of a python snippet that only reads

Workers == {"w1", "w2"}

ReqIds == 1..(IF MaxRuns > MaxRequests THEN MaxRuns ELSE MaxRequests)

\* The console the process started with (the target of sys.stdout and
\* sys.stderr before any redirection); StringIO buffers are named by the
\* request that created them.
Console == 0

\* ------------------------------------------------------------- text helpers
RECURSIVE SeqsUpTo(_, _)
SeqsUpTo(S, n) ==
  IF n = 0 THEN {<<>>}
  ELSE LET shorter == SeqsUpTo(S, n - 1)
       IN  shorter \cup {Append(s, x) : s \in {t \in shorter : Len(t) = n - 1}, x \in S}

\* t occurs in s as a contiguous run (Python's `t in s`).
Contains(s, t) ==
  \E i \in 0..(Len(s) - Len(t)) : SubSeq(s, i + 1, i + Len(t)) = t

\* -------------------------------------------------------------- constants
NoOutputMsg == <<"Code executed successfully (no output)">>
EOFMsg      == <<"EOFError: Program tried to read more input than available.">>
MockNote    == <<"Note: Using mock input values (auto-supplied)">>
DefaultMockValues == <<"5", "10", "test", "hello", "20", "3.14", "yes">>
DefaultValue == "default"

\* result = {'status': 'unknown', 'output': '', 'errors': []}
InitResult == [status |-> "unknown", output |-> <<>>, errors |-> <<>>, warnings |-> <<>>]

\* --------------------------------------------------------------- requests
\* A python snippet: straight-line statements, then how evaluation ends.
\*   print  : print(...)            input : input(prompt)
\*   end    : falls off the end     raise : raises an ordinary Exception
\*   eof    : raises EOFError       exit  : sys.exit() (SystemExit)
BodyOps  == {"print", "input"}
TermOps  == {"end", "raise", "eof", "exit"}
NoProg   == [body |-> <<>>, term |-> "end"]
Programs == [body : SeqsUpTo(BodyOps, MaxOps), term : TermOps]
SmallPrograms == [body : {<<>>, <<"print">>, <<"input">>}, term : TermOps]
InputLists == SeqsUpTo({"3", "4"}, MaxInputs)

PrintTok(id)  == "out" \o ToString(id)
PromptTok(id) == "prompt" \o ToString(id)

\* 'input(' in code
HasInputCall(prog) == \E i \in 1..Len(prog.body) : prog.body[i] = "input"

VARIABLES
  pc,          \* [Workers -> position of the worker inside execute_code]
  req,         \* [Workers -> the request being executed]
  result,      \* [Workers -> the result record of the call]
  py,          \* [Workers -> locals of the python branch]
  sys_stdout,  \* the process-wide sys.stdout: Console or a buffer id
  sys_stderr,  \* the process-wide sys.stderr
  bufs,        \* [ReqIds -> the StringIO buffers a request created]
  nreq,        \* number of execute_code calls so far
  fs,          \* the scratch files and directories that exist
  ext,         \* [Workers -> locals of the external-process branches]
  sql,         \* [Workers -> locals of the sql branch]
  stages,      \* [Workers -> the stages the current call has started]
  kept,        \* the record of one earlier call that returned (two-call properties)
  http         \* [Workers -> locals of the /api/compile handler]

vars == <<pc, req, result, py, sys_stdout, sys_stderr, bufs, nreq, fs, ext, sql, stages,
          kept, http>>

\* what the python branch never touches
extVars == <<fs, ext, sql, stages>>
\* what only the python branch touches
pyVars == <<py, sys_stdout, sys_stderr, bufs>>

NoReq == [id |-> 0, language |-> "none", prog |-> NoProg, stmts |-> <<>>, inputs |-> <<>>,
          sized |-> TRUE, code |-> <<>>, given |-> TRUE]
NoPy  == [old_stdout |-> Console, old_stderr |-> Console, mock_values |-> <<>>,
          mock_index |-> 0, ip |-> 0, exc |-> "none", reads |-> <<>>, written |-> <<>>]

NoExt == [exc |-> "none", tool |-> "none", probe_idx |-> 0, compile_rc |-> -1,
          compile_err |-> <<>>, child_out |-> <<>>, timed_out |-> FALSE,
          run_rc |-> -1, run_err |-> <<>>, fast_rc |-> -1, notfound |-> {},
          win32 |-> FALSE, running |-> {}, class_name |-> "", java_file |-> <<>>,
          invoked |-> "", transformed_code |-> <<>>]
NoDb  == [exists |-> FALSE, rows |-> 0]
NoSql == [idx |-> 0, output_lines |-> <<>>, working |-> NoDb, committed |-> NoDb,
          failed |-> {}]

\* No earlier call is on record.
NoKept == [id |-> 0, language |-> "none", prog |-> NoProg, inputs |-> <<>>, ext |-> NoExt,
           status |-> "unknown", errors |-> <<>>, output |-> <<>>]

\* source_code: '' (empty), or a snippet given by its statements
NoCode == [empty |-> TRUE, prog |-> NoProg, stmts |-> <<>>]
\* The handler's locals: data (code, language, inputs), the compiler's result,
\* the code handed to execute_code, how often it was called, the response.
NoHttp == [source_code |-> NoCode, language |-> "none", inputs |-> <<>>, sized |-> TRUE,
           compiled |-> "none", corrected_code |-> NoCode, executed |-> NoCode,
           calls |-> 0, response |-> "none", success |-> FALSE, execution |-> "none"]

Init ==
  /\ pc = [w \in Workers |-> "idle"]
  /\ req = [w \in Workers |-> NoReq]
  /\ result = [w \in Workers |-> InitResult]
  /\ py = [w \in Workers |-> NoPy]
  /\ sys_stdout = Console
  /\ sys_stderr = Console
  /\ bufs = [i \in ReqIds |-> [out |-> <<>>, err |-> <<>>]]
  /\ nreq = 0
  /\ fs = {}
  /\ ext = [w \in Workers |-> NoExt]
  /\ sql = [w \in Workers |-> NoSql]
  /\ stages = [w \in Workers |-> {}]
  /\ kept = NoKept
  /\ http = [w \in Workers |-> NoHttp]

\* ------------------------------------------------------------ python branch
\* io.StringIO.getvalue(): the console object has no such method.
CanGetValue(target) == target # Console
GetValue(target, chan) == bufs[target][chan]

\* target.write(text)
WriteTo(target, text) ==
  IF target = Console THEN bufs
  ELSE [bufs EXCEPT ![target].out = @ \o text]

\* A concurrent call of execute_code for python, on any idle worker.
CallPy(w) ==
  /\ pc[w] = "idle"
  /\ nreq < MaxRequests
  /\ \E prog \in SmallPrograms, inputs \in {<<>>, <<"3">>} :
       req' = [req EXCEPT ![w] = [id |-> nreq + 1, language |-> "python",
                                  prog |-> prog, stmts |-> <<>>, inputs |-> inputs,
                                  sized |-> TRUE, code |-> <<>>, given |-> TRUE]]
  /\ nreq' = nreq + 1
  /\ result' = [result EXCEPT ![w] = InitResult]
  /\ py' = [py EXCEPT ![w] = NoPy]
  /\ pc' = [pc EXCEPT ![w] = "py_save"]
  /\ UNCHANGED <<sys_stdout, sys_stderr, bufs, extVars, kept, http>>

\* old_stdout = sys.stdout; old_stderr = sys.stderr
PySave(w) ==
  /\ pc[w] = "py_save"
  /\ py' = [py EXCEPT ![w].old_stdout = sys_stdout, ![w].old_stderr = sys_stderr]
  /\ pc' = [pc EXCEPT ![w] = "py_swap"]
  /\ UNCHANGED <<req, result, sys_stdout, sys_stderr, bufs, nreq, kept, http, extVars>>

MockValues_Exhausted(given, user_inputs) == user_inputs
\* mock_values: the caller's inputs, or the built-in list when user_inputs is
\* None (not given) or empty
MockValues(given, user_inputs) ==
  IF ~given \/ Len(user_inputs) = 0 THEN DefaultMockValues ELSE user_inputs

NewBuffer_Shared(id) == MaxRuns
\* io.StringIO(): a new, empty buffer for this call
NewBuffer(id) == id

\* sys.stdout = io.StringIO(); sys.stderr = io.StringIO(); mock_values, mock_index.
\* len(user_inputs) raises TypeError when the caller's "inputs" is a JSON value
\* without a length (a number): the fault leaves for the outermost handler, past
\* the try/finally that has not been entered yet.
PySwap(w) ==
  /\ pc[w] = "py_swap"
  /\ sys_stdout' = NewBuffer(req[w].id)
  /\ sys_stderr' = NewBuffer(req[w].id)
  /\ IF req[w].sized
     THEN /\ py' = [py EXCEPT ![w].mock_values = MockValues(req[w].given, req[w].inputs),
                              ![w].mock_index = 0,
                              ![w].ip = 1]
          /\ pc' = [pc EXCEPT ![w] = "py_exec"]
     ELSE /\ py' = [py EXCEPT ![w].exc = "Exception"]
          /\ pc' = [pc EXCEPT ![w] = "outer_except"]
  /\ UNCHANGED <<req, result, bufs, nreq, kept, http, extVars>>

CurOp(w) ==
  IF py[w].ip <= Len(req[w].prog.body) THEN req[w].prog.body[py[w].ip]
  ELSE req[w].prog.term

\* the snippet's print(): written to whatever sys.stdout designates now
PyPrint(w) ==
  /\ pc[w] = "py_exec"
  /\ CurOp(w) = "print"
  /\ bufs' = WriteTo(sys_stdout, <<PrintTok(req[w].id)>>)
  /\ py' = [py EXCEPT ![w].ip = @ + 1, ![w].written = @ \o <<PrintTok(req[w].id)>>]
  /\ UNCHANGED <<pc, req, result, sys_stdout, sys_stderr, nreq, kept, http, extVars>>

\* mock_input, first half: sys.stdout.write(prompt); sys.stdout.flush()
MockInputPrompt(w) ==
  /\ pc[w] = "py_exec"
  /\ CurOp(w) = "input"
  /\ bufs' = WriteTo(sys_stdout, <<PromptTok(req[w].id)>>)
  /\ py' = [py EXCEPT ![w].written = @ \o <<PromptTok(req[w].id)>>]
  /\ pc' = [pc EXCEPT ![w] = "py_input"]
  /\ UNCHANGED <<req, result, sys_stdout, sys_stderr, nreq, kept, http, extVars>>

\* mock_input: the value handed out at cursor position idx (0-based)
MockValueAt(values, idx) ==
  IF idx < Len(values) THEN values[idx + 1] ELSE DefaultValue

MockIndexAfter_Stuck(values, idx) == idx
\* mock_input: the cursor after a call
MockIndexAfter(values, idx) ==
  IF idx < Len(values) THEN idx + 1 ELSE idx

\* mock_input, second half: pick the value, echo it, return it
MockInputValue(w) ==
  /\ pc[w] = "py_input"
  /\ LET value == MockValueAt(py[w].mock_values, py[w].mock_index)
     IN  /\ bufs' = WriteTo(sys_stdout, <<value, "\n">>)
         /\ py' = [py EXCEPT ![w].mock_index = MockIndexAfter(py[w].mock_values, @),
                             ![w].reads = Append(@, value),
                             ![w].written = @ \o <<value, "\n">>,
                             ![w].ip = @ + 1]
  /\ pc' = [pc EXCEPT ![w] = "py_exec"]
  /\ UNCHANGED <<req, result, sys_stdout, sys_stderr, nreq, kept, http, extVars>>

\* the snippet raises: control leaves exec() for the matching handler
PyRaise(w) ==
  /\ pc[w] = "py_exec"
  /\ CurOp(w) \in {"raise", "eof", "exit"}
  /\ pc' = [pc EXCEPT ![w] = CASE CurOp(w) = "raise" -> "py_except"
                               [] CurOp(w) = "eof" -> "py_eof"
                               \* SystemExit is no Exception: no handler matches
                               [] OTHER -> "py_finally"]
  /\ py' = [py EXCEPT ![w].exc = CASE CurOp(w) = "raise" -> "snippet"
                                  [] CurOp(w) = "eof" -> "none"
                                  [] OTHER -> "SystemExit"]
  /\ UNCHANGED <<req, result, sys_stdout, sys_stderr, bufs, nreq, kept, http, extVars>>

\* exec() returned: output = sys.stdout.getvalue(); errors = sys.stderr.getvalue()
PyNormalEnd(w) ==
  /\ pc[w] = "py_exec"
  /\ CurOp(w) = "end"
  /\ IF CanGetValue(sys_stdout) /\ CanGetValue(sys_stderr)
     THEN LET output == GetValue(sys_stdout, "out")
              errors == GetValue(sys_stderr, "err")
          IN  /\ result' = [result EXCEPT
                    ![w].status = "success",
                    ![w].output = IF output # <<>> THEN output ELSE NoOutputMsg,
                    ![w].warnings = IF HasInputCall(req[w].prog) THEN Append(@, MockNote) ELSE @,
                    ![w].errors = IF errors # <<>> THEN Append(@, errors) ELSE @]
              /\ pc' = [pc EXCEPT ![w] = "py_finally"]
              /\ py' = py
     ELSE \* AttributeError raised inside the try: caught by `except Exception`
          /\ pc' = [pc EXCEPT ![w] = "py_except"]
          /\ py' = [py EXCEPT ![w].exc = "engine"]
          /\ result' = result
  /\ UNCHANGED <<req, sys_stdout, sys_stderr, bufs, nreq, kept, http, extVars>>

\* except EOFError:
PyEOFHandler(w) ==
  /\ pc[w] = "py_eof"
  /\ IF CanGetValue(sys_stdout)
     THEN /\ result' = [result EXCEPT ![w].status = "error",
                                      ![w].errors = Append(@, EOFMsg),
                                      ![w].output = GetValue(sys_stdout, "out")]
          /\ py' = py
     ELSE \* getvalue() raises inside the handler: the fault leaves the inner try
          /\ result' = [result EXCEPT ![w].status = "error",
                                      ![w].errors = Append(@, EOFMsg)]
          /\ py' = [py EXCEPT ![w].exc = "Exception"]
  /\ pc' = [pc EXCEPT ![w] = "py_finally"]
  /\ UNCHANGED <<req, sys_stdout, sys_stderr, bufs, nreq, kept, http, extVars>>

\* error_msg: "Line <n>: " is prefixed when a frame of the traceback belongs to
\* the snippet ('<string>'); n is the line of the raising statement.
ErrorMsg(w) ==
  IF py[w].exc = "snippet"
  THEN <<"Line ", ToString(py[w].ip), ": ", "Exception: msg">>
  ELSE <<"AttributeError: getvalue">>

\* except Exception as e:
PyExceptHandler(w) ==
  /\ pc[w] = "py_except"
  /\ IF CanGetValue(sys_stdout)
     THEN LET partial_output == GetValue(sys_stdout, "out")
          IN  /\ result' = [result EXCEPT
                    ![w].status = "error",
                    ![w].errors = Append(@, ErrorMsg(w)),
                    ![w].output = IF partial_output # <<>> THEN partial_output ELSE @]
              /\ py' = [py EXCEPT ![w].exc = "none"]
     ELSE /\ result' = [result EXCEPT ![w].status = "error",
                                      ![w].errors = Append(@, ErrorMsg(w))]
          /\ py' = [py EXCEPT ![w].exc = "Exception"]
  /\ pc' = [pc EXCEPT ![w] = "py_finally"]
  /\ UNCHANGED <<req, sys_stdout, sys_stderr, bufs, nreq, kept, http, extVars>>

\* finally: sys.stdout = old_stdout; sys.stderr = old_stderr
PyFinally(w) ==
  /\ pc[w] = "py_finally"
  /\ sys_stdout' = py[w].old_stdout
  /\ sys_stderr' = py[w].old_stderr
  /\ pc' = [pc EXCEPT ![w] = CASE py[w].exc = "none" -> "done"
                               [] py[w].exc = "SystemExit" -> "raised"
                               [] OTHER -> "outer_except"]
  /\ UNCHANGED <<req, result, py, bufs, nreq, kept, http, extVars>>

\* except Exception as e: (the outermost handler of execute_code)
OuterExcept(w) ==
  /\ pc[w] = "outer_except"
  /\ result' = [result EXCEPT ![w].status = "error",
                              ![w].errors = Append(@, <<"Execution error: ", "exc">>)]
  /\ pc' = [pc EXCEPT ![w] = "done"]
  /\ UNCHANGED <<req, py, sys_stdout, sys_stderr, bufs, nreq, kept, http, extVars>>

\* A StringIO buffer lives as long as something refers to it: sys.stdout,
\* sys.stderr or a saved old_stdout / old_stderr of a call in progress.
Referenced(id, except) ==
  \/ sys_stdout = id
  \/ sys_stderr = id
  \/ \E v \in Workers \ {except} : py[v].old_stdout = id \/ py[v].old_stderr = id

\* The caller has the result (pc = "done") or the fault (pc = "raised"); the
\* call's locals are dropped and the worker takes the next request.
Finish(w) ==
  /\ pc[w] \in {"done", "raised"}
  /\ pc' = [pc EXCEPT ![w] = "idle"]
  /\ req' = [req EXCEPT ![w] = NoReq]
  /\ result' = [result EXCEPT ![w] = InitResult]
  /\ py' = [py EXCEPT ![w] = NoPy]
  /\ ext' = [ext EXCEPT ![w] = NoExt]
  /\ sql' = [sql EXCEPT ![w] = NoSql]
  /\ stages' = [stages EXCEPT ![w] = {}]
  /\ bufs' = IF req[w].id \in ReqIds /\ ~Referenced(req[w].id, w)
             THEN [bufs EXCEPT ![req[w].id] = [out |-> <<>>, err |-> <<>>]]
             ELSE bufs
  /\ UNCHANGED <<sys_stdout, sys_stderr, nreq, kept, http, fs>>

PyStep(w) ==
  \/ PySave(w) \/ PySwap(w) \/ PyPrint(w) \/ MockInputPrompt(w) \/ MockInputValue(w)
  \/ PyRaise(w) \/ PyNormalEnd(w) \/ PyEOFHandler(w) \/ PyExceptHandler(w)
  \/ PyFinally(w) \/ OuterExcept(w) \/ Finish(w)

\* Concurrent python evaluations (Flask serves each request on its own thread).
NextPy == \E w \in Workers : CallPy(w) \/ PyStep(w)

SpecPy == Init /\ [][NextPy]_vars

\* ------------------------------------------------ external-process branches
\* What a child process started by subprocess.run can do:
\*   exit     : it ends with return code rc, having written out and err
\*   timeout  : subprocess.TimeoutExpired (out: what it had written by then)
\*   notfound : FileNotFoundError, the binary does not exist
\*   oserror  : any other exception of subprocess.run
ChildOut == {<<>>, <<"o">>}
ChildErr == {<<>>, <<"e">>}
\* The processes of a stage that are running when its ceiling is reached: the
\* child subprocess.run started, alone or with a process the child started
\* (the program under `go run`, node under ts-node, the command under the shell).
ProcessTrees == {{"child"}, {"child", "grandchild"}}
RunOutcomes ==
  [kind : {"exit"}, rc : {0, 1}, out : ChildOut, err : ChildErr]
  \cup [kind : {"timeout"}, rc : {-1}, out : ChildOut, err : {<<>>}, tree : ProcessTrees]
  \cup [kind : {"notfound", "oserror"}, rc : {-1}, out : {<<>>}, err : {<<>>}]

\* A compiler's diagnostics: text over an error token and a whitespace token.
DiagTexts == SeqsUpTo({"e", " "}, MaxDiagLen)
CompileOutcomes ==
  [kind : {"exit"}, rc : {0}, out : {<<>>}, err : {<<>>}]
  \cup [kind : {"exit"}, rc : {1}, out : {<<>>}, err : DiagTexts]
  \cup [kind : {"timeout"}, rc : {-1}, out : {<<>>}, err : {<<>>}, tree : ProcessTrees]
  \cup [kind : {"notfound", "oserror"}, rc : {-1}, out : {<<>>}, err : {<<>>}]

\* subprocess.run(..., timeout=n) at the ceiling: process.kill() on the child it
\* started, then TimeoutExpired; what is left running of the stage's processes
AfterKill(o) == IF o.kind = "timeout" THEN o.tree \ {"child"} ELSE {}

PcAfterCompile_NoReturn(rc, run_pc) == run_pc
\* if compile_process.returncode != 0: ... return result
PcAfterCompile(rc, run_pc) == IF rc # 0 THEN "done" ELSE run_pc

\* the stages whose binary turned out not to exist, after outcome o of stage
NotFoundAt(sofar, o, stage) == IF o.kind = "notfound" THEN sofar \cup {stage} ELSE sofar

\* subprocess.run(..., shell=True) on win32: the shell is what is started, and
\* a command it cannot find is its own exit code 1 and message, no exception
ViaShell(o, win32) ==
  IF win32 /\ o.kind = "notfound"
  THEN [kind |-> "exit", rc |-> 1, out |-> <<>>, err |-> <<"not recognized">>]
  ELSE o

\* the exception class a failed subprocess.run raises
ExcOf(o) == CASE o.kind = "timeout"  -> "TimeoutExpired"
              [] o.kind = "notfound" -> "FileNotFoundError"
              [] OTHER               -> "Exception"

Art(id, kind) == [req |-> id, kind |-> kind]
\* the scratch directory of request id and everything inside it
InDir(id) == {Art(id, k) : k \in {"dir", "src", "exe", "js"}}

Fail_ErrorsOnly(r, entry) == [r EXCEPT !.errors = Append(@, entry)]
\* result['status'] = 'error'; result['errors'].append(entry)
Fail(r, entry) == [r EXCEPT !.status = "error", !.errors = Append(@, entry)]

\* status by return code, output or the placeholder, stderr as one errors entry
RunResult(r, o, label, placeholder) ==
  [r EXCEPT !.status = IF o.rc = 0 THEN "success" ELSE "error",
            !.output = IF o.out # <<>> THEN o.out ELSE placeholder,
            !.errors = IF o.err # <<>> THEN Append(@, <<label>> \o o.err) ELSE @]

\* the statements of a sql request, after the split on ';'
StmtKinds == {"CREATE", "INSERT", "SELECT", "SELECT_MISSING", "BAD_ENCODING"}
StmtLists == SeqsUpTo(StmtKinds, MaxStmts)

Languages == {"python", "java", "sql", "r", "c", "cpp", "go", "php", "typescript", "ruby"}
Supported == Languages \ {"ruby"}

EntryPc_Default(language) ==
  CASE language = "python" -> "py_save"
    [] language = "java" -> "java_check"
    [] language \in {"c", "cpp"} -> "c_prepare"
    [] language = "sql" -> "sql_create"
    [] language = "r" -> "r_create"
    [] language = "go" -> "go_prepare"
    [] language = "typescript" -> "ts_prepare"
    [] OTHER -> "php_create"

\* the if / elif ladder of execute_code
EntryPc(language) ==
  CASE language = "python" -> "py_save"
    [] language = "java" -> "java_check"
    [] language \in {"c", "cpp"} -> "c_prepare"
    [] language = "sql" -> "sql_create"
    [] language = "r" -> "r_create"
    [] language = "go" -> "go_prepare"
    [] language = "php" -> "php_create"
    [] language = "typescript" -> "ts_prepare"
    [] OTHER -> "else"

\* The requests of the serial specification: python snippets with every inputs
\* list (and an "inputs" value that is no list), sql with statement lists, the
\* other languages with no, one and two inputs.
Requests(id) ==
  [id : {id}, language : {"python"}, prog : Programs, stmts : {<<>>},
   inputs : InputLists, sized : {TRUE}, code : {<<>>}, given : {TRUE}]
  \cup [id : {id}, language : {"python"}, prog : {NoProg}, stmts : {<<>>},
        inputs : {<<>>}, sized : {FALSE}, code : {<<>>}, given : {TRUE}]
  \cup [id : {id}, language : {"sql"}, prog : {NoProg}, stmts : StmtLists,
        inputs : {<<>>}, sized : {TRUE}, code : {<<>>}, given : {TRUE}]
  \cup [id : {id}, language : Languages \ {"python", "sql"}, prog : {NoProg}, stmts : {<<>>},
        inputs : {<<>>, <<"3">>, <<"3", "4">>}, sized : {TRUE}, code : {<<>>}, given : {TRUE}]

\* execute_code(code, language, user_inputs): one call at a time
Call(w) ==
  /\ \A v \in Workers : pc[v] = "idle"
  /\ nreq < MaxRequests
  /\ \E r \in Requests(nreq + 1) :
       /\ req' = [req EXCEPT ![w] = r]
       /\ pc' = [pc EXCEPT ![w] = EntryPc(r.language)]
  /\ nreq' = nreq + 1
  /\ result' = [result EXCEPT ![w] = InitResult]
  /\ py' = [py EXCEPT ![w] = NoPy]
  /\ ext' = [ext EXCEPT ![w] = NoExt]
  /\ sql' = [sql EXCEPT ![w] = NoSql]
  /\ stages' = [stages EXCEPT ![w] = {}]
  /\ UNCHANGED <<sys_stdout, sys_stderr, bufs, fs, kept, http>>

\* else: result['status'] = 'unknown_language'
Unsupported(w) ==
  /\ pc[w] = "else"
  /\ result' = [result EXCEPT ![w].status = "unknown_language",
                              ![w].output = <<"Execution not supported for ", req[w].language>>]
  /\ pc' = [pc EXCEPT ![w] = "done"]
  /\ UNCHANGED <<req, nreq, kept, http, pyVars, extVars>>

\* ---- java
JdkMissingMsg == <<"Java JDK not found at C:\\oracleJdk-25!">>
JavaTimeoutMsg == <<"Execution timeout: Program took too long to execute (>10 seconds).">>

\* if not os.path.exists(javac_path): ... return result
JavaCheck(w) ==
  /\ pc[w] = "java_check"
  /\ stages' = [stages EXCEPT ![w] = @ \cup {"resolve"}]
  /\ \E exists \in BOOLEAN :
       IF exists
       THEN /\ pc' = [pc EXCEPT ![w] = "java_prepare"]
            /\ result' = result
            /\ ext' = [ext EXCEPT ![w].tool = "javac"]
       ELSE /\ pc' = [pc EXCEPT ![w] = "done"]
            /\ result' = [result EXCEPT ![w] = Fail(@, JdkMissingMsg)]
            /\ ext' = ext
  /\ UNCHANGED <<req, nreq, kept, http, pyVars, fs, sql>>

\* A java snippet is the sequence of its words (text between whitespace).
\* re.search(r'<words>\s+(\w+)', code): the position of the leftmost place where
\* the words of pattern are followed by a name, 0 when there is none.
Search(pattern, code) ==
  LET n == Len(pattern)
      hits == {i \in 1..Len(code) : i + n <= Len(code) /\ SubSeq(code, i, i + n - 1) = pattern}
  IN  IF hits = {} THEN 0 ELSE CHOOSE i \in hits : \A j \in hits : i <= j

DefaultClassName == "Main"

ClassName_PublicOnly(code) ==
  LET public_class_match == Search(<<"public", "class">>, code)
  IN  IF public_class_match # 0 THEN code[public_class_match + 2] ELSE DefaultClassName
\* class_name: group(1) of r'public\s+class\s+(\w+)', else of r'class\s+(\w+)',
\* else 'Main'
ClassName(code) ==
  LET public_class_match == Search(<<"public", "class">>, code)
      class_match == Search(<<"class">>, code)
  IN  IF public_class_match # 0 THEN code[public_class_match + 2]
      ELSE IF class_match # 0 THEN code[class_match + 1]
      ELSE DefaultClassName

\* with tempfile.TemporaryDirectory() as temp_dir: write <class_name>.java
JavaPrepare(w) ==
  /\ pc[w] = "java_prepare"
  /\ stages' = [stages EXCEPT ![w] = @ \cup {"prepare"}]
  /\ LET class_name == ClassName(req[w].code)
         java_file == <<class_name, ".java">>
     IN
     \E written \in BOOLEAN :
       IF written
       THEN /\ fs' = fs \cup {Art(req[w].id, "dir"), Art(req[w].id, "src")}
            /\ pc' = [pc EXCEPT ![w] = "java_compile"]
            /\ ext' = [ext EXCEPT ![w].class_name = class_name, ![w].java_file = java_file]
       ELSE \* open() or f.write() raised: the directory is removed on the way out
            /\ fs' = fs
            /\ pc' = [pc EXCEPT ![w] = "java_except"]
            /\ ext' = [ext EXCEPT ![w].exc = "Exception", ![w].class_name = class_name]
  /\ UNCHANGED <<req, result, nreq, kept, http, pyVars, sql>>

\* compile_process = subprocess.run([javac_path, java_file], timeout=10)
JavaCompile(w) ==
  /\ pc[w] = "java_compile"
  /\ stages' = [stages EXCEPT ![w] = @ \cup {"compile"}]
  /\ \E o \in CompileOutcomes :
       IF o.kind = "exit"
       THEN /\ ext' = [ext EXCEPT ![w].compile_rc = o.rc, ![w].compile_err = o.err]
            /\ IF o.rc # 0
               THEN /\ result' = [result EXCEPT
                         ![w] = Fail(@, <<"Java Compilation Error:\n">> \o o.err)]
                    /\ fs' = fs \ InDir(req[w].id)
               ELSE /\ result' = result
                    /\ fs' = fs \cup {Art(req[w].id, "exe")}
            /\ pc' = [pc EXCEPT ![w] = PcAfterCompile(o.rc, "java_run")]
       ELSE /\ ext' = [ext EXCEPT ![w].exc = ExcOf(o), ![w].notfound = NotFoundAt(@, o, "compile"), ![w].timed_out = (o.kind = "timeout"), ![w].running = AfterKill(o)]
            /\ result' = result
            /\ fs' = fs \ InDir(req[w].id)
            /\ pc' = [pc EXCEPT ![w] = "java_except"]
  /\ UNCHANGED <<req, nreq, kept, http, pyVars, sql>>

\* run_process = subprocess.run([java_path, '-cp', temp_dir, class_name], timeout=10)
JavaRun(w) ==
  /\ pc[w] = "java_run"
  /\ stages' = [stages EXCEPT ![w] = @ \cup {"run"}]
  /\ \E o \in RunOutcomes :
       /\ fs' = fs \ InDir(req[w].id)
       /\ IF o.kind = "exit"
          THEN /\ result' = [result EXCEPT
                    ![w] = RunResult(@, o, "Runtime Error:\n", NoOutputMsg)]
               /\ ext' = [ext EXCEPT ![w].child_out = o.out, ![w].run_rc = o.rc,
                                     ![w].run_err = o.err,
                                     ![w].invoked = ext[w].class_name]
               /\ pc' = [pc EXCEPT ![w] = "done"]
          ELSE /\ result' = result
               /\ ext' = [ext EXCEPT ![w].exc = ExcOf(o), ![w].notfound = NotFoundAt(@, o, "run"), ![w].child_out = o.out,
                                     ![w].timed_out = (o.kind = "timeout"), ![w].running = AfterKill(o),
                                     ![w].invoked = ext[w].class_name]
               /\ pc' = [pc EXCEPT ![w] = "java_except"]
  /\ UNCHANGED <<req, nreq, kept, http, pyVars, sql>>

\* except subprocess.TimeoutExpired: ... except Exception as e: ...
JavaExcept(w) ==
  /\ pc[w] = "java_except"
  /\ result' = [result EXCEPT ![w] =
        IF ext[w].exc = "TimeoutExpired" THEN Fail(@, JavaTimeoutMsg)
        ELSE Fail(@, <<"Java execution error: ", ext[w].exc>>)]
  /\ ext' = [ext EXCEPT ![w].exc = "none"]
  /\ pc' = [pc EXCEPT ![w] = "done"]
  /\ UNCHANGED <<req, nreq, kept, http, pyVars, fs, sql, stages>>

\* ---- c and cpp (the two branches differ in names and messages only)
gcc_paths == <<"gcc", "C:\\MinGW\\bin\\gcc.exe", "C:\\TDM-GCC-64\\bin\\gcc.exe",
               "C:\\msys64\\mingw64\\bin\\gcc.exe", "/usr/bin/gcc">>
gpp_paths == <<"g++", "C:\\MinGW\\bin\\g++.exe", "C:\\TDM-GCC-64\\bin\\g++.exe",
               "C:\\msys64\\mingw64\\bin\\g++.exe", "/usr/bin/g++">>
CCandidates(language) == IF language = "c" THEN gcc_paths ELSE gpp_paths
CMissingMsg(language) ==
  IF language = "c" THEN <<"GCC compiler not found!">> ELSE <<"G++ compiler not found!">>
CCompileLabel(language) ==
  IF language = "c" THEN "C Compilation Error:\n" ELSE "C++ Compilation Error:\n"
CTimeoutMsg == <<"Execution timeout: Program took too long to execute (>30 seconds).">>

\* with tempfile.TemporaryDirectory() as temp_dir: write program.c / program.cpp
CPrepare(w) ==
  /\ pc[w] = "c_prepare"
  /\ stages' = [stages EXCEPT ![w] = @ \cup {"prepare"}]
  /\ \E written \in BOOLEAN :
       IF written
       THEN /\ fs' = fs \cup {Art(req[w].id, "dir"), Art(req[w].id, "src")}
            /\ pc' = [pc EXCEPT ![w] = "c_probe"]
            /\ ext' = [ext EXCEPT ![w].probe_idx = 1]
       ELSE /\ fs' = fs
            /\ pc' = [pc EXCEPT ![w] = "c_except"]
            /\ ext' = [ext EXCEPT ![w].exc = "Exception"]
  /\ UNCHANGED <<req, result, nreq, kept, http, pyVars, sql>>

\* How a version probe of one candidate ends: return code 0, another return
\* code, or an exception (not found, timeout) that the bare except swallows.
ProbeOutcomes == {"ok", "nonzero", "raises"}

\* for path in gcc_paths: one iteration, and the `if not gcc_cmd` after the last
CProbe(w) ==
  /\ pc[w] = "c_probe"
  /\ stages' = [stages EXCEPT ![w] = @ \cup {"resolve"}]
  /\ \E o \in ProbeOutcomes :
       LET paths == CCandidates(req[w].language)
           i == ext[w].probe_idx
       IN  IF o = "ok"
           THEN /\ ext' = [ext EXCEPT ![w].tool = paths[i]]
                /\ pc' = [pc EXCEPT ![w] = "c_compile"]
                /\ UNCHANGED <<result, fs>>
           ELSE IF i < Len(paths)
           THEN /\ ext' = [ext EXCEPT ![w].probe_idx = i + 1]
                /\ UNCHANGED <<pc, result, fs>>
           ELSE \* no candidate answered: return result, leaving the with block
                /\ result' = [result EXCEPT ![w] = Fail(@, CMissingMsg(req[w].language))]
                /\ fs' = fs \ InDir(req[w].id)
                /\ pc' = [pc EXCEPT ![w] = "done"]
                /\ ext' = ext
  /\ UNCHANGED <<req, nreq, kept, http, pyVars, sql>>

\* compile_process = subprocess.run([gcc_cmd, c_file, '-o', exe_file], timeout=30)
CCompile(w) ==
  /\ pc[w] = "c_compile"
  /\ stages' = [stages EXCEPT ![w] = @ \cup {"compile"}]
  /\ \E o \in CompileOutcomes :
       IF o.kind = "exit"
       THEN /\ ext' = [ext EXCEPT ![w].compile_rc = o.rc, ![w].compile_err = o.err]
            /\ IF o.rc # 0
               THEN /\ result' = [result EXCEPT
                         ![w] = Fail(@, <<CCompileLabel(req[w].language)>> \o o.err)]
                    /\ fs' = fs \ InDir(req[w].id)
               ELSE /\ result' = result
                    /\ fs' = fs \cup {Art(req[w].id, "exe")}
            /\ pc' = [pc EXCEPT ![w] = PcAfterCompile(o.rc, "c_run")]
       ELSE /\ ext' = [ext EXCEPT ![w].exc = ExcOf(o), ![w].notfound = NotFoundAt(@, o, "compile"), ![w].timed_out = (o.kind = "timeout"), ![w].running = AfterKill(o)]
            /\ result' = result
            /\ fs' = fs \ InDir(req[w].id)
            /\ pc' = [pc EXCEPT ![w] = "c_except"]
  /\ UNCHANGED <<req, nreq, kept, http, pyVars, sql>>

\* run_process = subprocess.run([exe_file], input=input_data, timeout=30)
CRun(w) ==
  /\ pc[w] = "c_run"
  /\ stages' = [stages EXCEPT ![w] = @ \cup {"run"}]
  /\ \E o \in RunOutcomes :
       /\ fs' = fs \ InDir(req[w].id)
       /\ IF o.kind = "exit"
          THEN /\ result' = [result EXCEPT
                    ![w] = RunResult(@, o, "Runtime Error:\n", NoOutputMsg)]
               /\ ext' = [ext EXCEPT ![w].child_out = o.out, ![w].run_rc = o.rc,
                                     ![w].run_err = o.err]
               /\ pc' = [pc EXCEPT ![w] = "done"]
          ELSE /\ result' = result
               /\ ext' = [ext EXCEPT ![w].exc = ExcOf(o), ![w].notfound = NotFoundAt(@, o, "run"), ![w].child_out = o.out,
                                     ![w].timed_out = (o.kind = "timeout"), ![w].running = AfterKill(o)]
               /\ pc' = [pc EXCEPT ![w] = "c_except"]
  /\ UNCHANGED <<req, nreq, kept, http, pyVars, sql>>

\* except subprocess.TimeoutExpired: ... except Exception as e: ...
CExcept(w) ==
  /\ pc[w] = "c_except"
  /\ result' = [result EXCEPT ![w] =
        IF ext[w].exc = "TimeoutExpired" THEN Fail(@, CTimeoutMsg)
        ELSE Fail(@, <<"C execution error: ", ext[w].exc>>)]
  /\ ext' = [ext EXCEPT ![w].exc = "none"]
  /\ pc' = [pc EXCEPT ![w] = "done"]
  /\ UNCHANGED <<req, nreq, kept, http, pyVars, fs, sql, stages>>

\* ---- sql
SqlNoOutputMsg == <<"SQL executed successfully (no output)">>

RECURSIVE Join(_, _)
\* sep.join(lines), each line a text
Join(lines, sep) ==
  IF lines = <<>> THEN <<>>
  ELSE IF Len(lines) = 1 THEN lines[1]
  ELSE lines[1] \o <<sep>> \o Join(Tail(lines), sep)

\* How cursor.execute(statement) ends on database db:
\*   "ok", "dberror" (sqlite3.Error) or "fault" (an exception that is no
\*   sqlite3.Error: a statement that cannot be encoded as UTF-8)
ExecOutcome(kind, db) ==
  CASE kind = "BAD_ENCODING" -> "fault"
    [] kind = "SELECT_MISSING" -> "dberror"
    [] kind = "CREATE" -> IF db.exists THEN "dberror" ELSE "ok"
    [] OTHER -> IF db.exists THEN "ok" ELSE "dberror"

\* the database after a statement that succeeded
ExecEffect(kind, db) ==
  CASE kind = "CREATE" -> [db EXCEPT !.exists = TRUE]
    [] kind = "INSERT" -> [db EXCEPT !.rows = @ + 1]
    [] OTHER -> db

\* the lines a statement that succeeded adds to output_lines
StmtLines(kind, db) ==
  IF kind \in {"SELECT", "SELECT_MISSING"}
  THEN IF db.rows > 0
       THEN <<<<"\n", "cols">>, <<"----">>>> \o [i \in 1..db.rows |-> <<"row">>] \o << <<>> >>
       ELSE << <<"Query returned 0 rows.\n">> >>
  ELSE << <<"ok ", kind, " executed successfully">> >>

\* 'SQL Error in statement:\n  {statement[:100]}\n  {str(e)}'
SqlErrorEntry(kind) == <<"SQL Error in statement:\n  ", kind, "\n  ", "sqlite3.Error">>

\* except sqlite3.Error: the error is recorded and the loop goes on with the
\* next statement (s: the branch's locals, k: the failed statement, n: how many
\* statements there are)
SqlAfterError_Break(s, k, n) == [s EXCEPT !.idx = n + 1, !.failed = @ \cup {k}]
SqlAfterError(s, k, n) == [s EXCEPT !.idx = k + 1, !.failed = @ \cup {k}]

\* with tempfile.NamedTemporaryFile(suffix='.db', delete=False): db_path
SqlCreate(w) ==
  /\ pc[w] = "sql_create"
  /\ fs' = fs \cup {Art(req[w].id, "db")}
  /\ sql' = [sql EXCEPT ![w].idx = 1]
  /\ pc' = [pc EXCEPT ![w] = "sql_loop"]
  /\ stages' = [stages EXCEPT ![w] = @ \cup {"prepare"}]
  /\ UNCHANGED <<req, result, nreq, kept, http, pyVars, ext>>

\* for statement in statements: one iteration (execute, commit, render)
SqlStatement(w) ==
  /\ pc[w] = "sql_loop"
  /\ sql[w].idx <= Len(req[w].stmts)
  /\ LET kind == req[w].stmts[sql[w].idx]
         o == ExecOutcome(kind, sql[w].working)
         after == ExecEffect(kind, sql[w].working)
     IN  CASE o = "ok" ->
                /\ sql' = [sql EXCEPT ![w].working = after,
                                      ![w].committed = after,      \* conn.commit()
                                      ![w].output_lines = @ \o StmtLines(kind, after),
                                      ![w].idx = @ + 1]
                /\ UNCHANGED <<result, pc, fs, ext>>
           [] o = "dberror" ->          \* except sqlite3.Error as e:
                /\ result' = [result EXCEPT ![w].errors = Append(@, SqlErrorEntry(kind))]
                /\ sql' = [sql EXCEPT ![w] = SqlAfterError(@, sql[w].idx, Len(req[w].stmts))]
                /\ UNCHANGED <<pc, fs, ext>>
           [] OTHER ->                  \* the fault leaves the loop through finally
                /\ fs' = fs \ {Art(req[w].id, "db")}
                /\ ext' = [ext EXCEPT ![w].exc = "Exception"]
                /\ pc' = [pc EXCEPT ![w] = "sql_except"]
                /\ UNCHANGED <<result, sql>>
  /\ UNCHANGED <<req, nreq, kept, http, pyVars, stages>>

SqlStatus_ByErrors(errors) == IF errors = <<>> THEN "success" ELSE "error"
\* result['status'] = 'success', whatever result['errors'] holds by then
SqlStatus(errors) == "success"

\* conn.close(); status and output; finally: os.unlink(db_path)
SqlFinish(w) ==
  /\ pc[w] = "sql_loop"
  /\ sql[w].idx > Len(req[w].stmts)
  /\ result' = [result EXCEPT
        ![w].status = SqlStatus(result[w].errors),
        ![w].output = IF sql[w].output_lines # <<>> THEN Join(sql[w].output_lines, "\n")
                      ELSE SqlNoOutputMsg]
  /\ fs' = fs \ {Art(req[w].id, "db")}
  /\ pc' = [pc EXCEPT ![w] = "done"]
  /\ UNCHANGED <<req, nreq, kept, http, pyVars, ext, sql, stages>>

\* except Exception as e: (sql branch)
SqlExcept(w) ==
  /\ pc[w] = "sql_except"
  /\ result' = [result EXCEPT ![w] = Fail(@, <<"SQL execution error: ", ext[w].exc>>)]
  /\ ext' = [ext EXCEPT ![w].exc = "none"]
  /\ pc' = [pc EXCEPT ![w] = "done"]
  /\ UNCHANGED <<req, nreq, kept, http, pyVars, fs, sql, stages>>

\* ---- r
rscript_paths == <<"C:\\Program Files\\R\\R-4.5.2\\bin\\Rscript.exe", "Rscript",
                   "C:\\Program Files\\R\\R-4.3.2\\bin\\Rscript.exe",
                   "C:\\Program Files\\R\\R-4.4.0\\bin\\Rscript.exe",
                   "C:\\Program Files\\R\\R-4.2.0\\bin\\Rscript.exe",
                   "/usr/bin/Rscript", "/usr/local/bin/Rscript">>
RMissingMsg == <<"R not found!">>
RTimeoutMsg == <<"Execution timeout: R script took too long to execute (>30 seconds).">>

\* Lines of Rscript's error stream: a real message, a line starting with
\* "WARNING:", a line mentioning a package, a blank line.
RErrLines == {<<>>, <<"e">>, <<"WARNING: w">>, <<"package p">>, <<" ">>, <<"WARNING: w", "e">>}
ROutcomes ==
  [kind : {"exit"}, rc : {0, 1}, out : ChildOut, err : RErrLines]
  \cup [kind : {"timeout"}, rc : {-1}, out : ChildOut, err : {<<>>}, tree : ProcessTrees]
  \cup [kind : {"notfound", "oserror"}, rc : {-1}, out : {<<>>}, err : {<<>>}]

\* run_process.stderr as one text: its lines, joined by newlines
StreamText(lines) == Join([i \in 1..Len(lines) |-> <<lines[i]>>], "\n")

\* error_lines: the lines that are neither blank, nor warnings, nor about packages
ErrorLines(err) ==
  SelectSeq(err, LAMBDA line : line \notin {" ", "WARNING: w", "package p"})

ShownInputs == 10
\* "User Inputs: a, b" (the first ten, then "(and n more...)") before the output
InputsHeader(inputs, output) ==
  <<"User Inputs: ">>
  \o Join([i \in 1..(IF Len(inputs) < ShownInputs THEN Len(inputs) ELSE ShownInputs)
             |-> <<inputs[i]>>], ", ")
  \o (IF Len(inputs) > ShownInputs
      THEN <<" (and ", ToString(Len(inputs) - ShownInputs), " more...)">> ELSE <<>>)
  \o <<"\n\n">> \o output

\* re.sub(...) x 4; NamedTemporaryFile(suffix='.R', delete=False); temp_r.write(...)
\* An r snippet is the sequence of its tokens: names, "(" and ")"; whitespace
\* (\s* in the patterns) is what separates tokens.
ScanCall == "scan(\"stdin\", what=character(), n=1, quiet=TRUE)"

\* [^)]*\): the first ")" at or after position i, 0 when there is none
FirstClose(code, i) ==
  LET closes == {j \in i..Len(code) : code[j] = ")"}
  IN  IF closes = {} THEN 0 ELSE CHOOSE j \in closes : \A k \in closes : j <= k

\* readline\s*\([^)]*\) at position i: the position of its last token, else 0
CallEnd(code, i) ==
  IF i + 1 <= Len(code) /\ code[i] = "readline" /\ code[i + 1] = "("
  THEN FirstClose(code, i + 2) ELSE 0

\* the patterns are not anchored: `character` also matches the end of the
\* longer name as.character
HeadMatches(tok, head) == tok = head \/ (head = "character" /\ tok = "as.character")

\* <head>\s*\(\s*readline\s*\([^)]*\)\s*\) at position i, or the bare call when
\* head is "readline": the position of the last token of the match, else 0
MatchEnd(code, i, head) ==
  IF head = "readline" THEN CallEnd(code, i)
  ELSE IF HeadMatches(code[i], head) /\ i + 1 <= Len(code) /\ code[i + 1] = "("
       THEN LET e == CallEnd(code, i + 2)
            IN  IF e # 0 /\ e + 1 <= Len(code) /\ code[e + 1] = ")" THEN e + 1 ELSE 0
       ELSE 0

\* the replacement text of each pattern; what precedes the match inside the
\* first token stays where it is
Replacement(head, tok) ==
  CASE head \in {"as.integer", "as.numeric"} -> <<head, "(", ScanCall, ")">>
    [] tok = "as.character" -> <<"as." \o ScanCall>>
    [] OTHER -> <<ScanCall>>

\* re.sub(pattern, replacement, code): leftmost non-overlapping matches
RECURSIVE SubFrom(_, _, _)
SubFrom(code, i, head) ==
  IF i > Len(code) THEN <<>>
  ELSE LET e == MatchEnd(code, i, head)
       IN  IF e # 0 THEN Replacement(head, code[i]) \o SubFrom(code, e + 1, head)
           ELSE <<code[i]>> \o SubFrom(code, i + 1, head)

\* transformed_code: the four substitutions, in the order of the source
TransformedCode(code) ==
  SubFrom(SubFrom(SubFrom(SubFrom(code, 1, "as.integer"), 1, "as.numeric"),
                  1, "character"), 1, "readline")

RCreate(w) ==
  /\ pc[w] = "r_create"
  /\ stages' = [stages EXCEPT ![w] = @ \cup {"prepare"}]
  /\ fs' = fs \cup {Art(req[w].id, "src")}
  /\ \E written \in BOOLEAN :
       IF written
       THEN /\ pc' = [pc EXCEPT ![w] = "r_probe"]
            /\ ext' = [ext EXCEPT ![w].probe_idx = 1,
                                  ![w].transformed_code = TransformedCode(req[w].code)]
       ELSE \* write() raised inside the with block: the file is closed, not
            \* deleted, and the try/finally that unlinks it is never entered
            /\ pc' = [pc EXCEPT ![w] = "r_except"]
            /\ ext' = [ext EXCEPT ![w].exc = "Exception",
                                  ![w].transformed_code = TransformedCode(req[w].code)]
  /\ UNCHANGED <<req, result, nreq, kept, http, pyVars, sql>>

\* for path in rscript_paths: one iteration, and the `if not rscript_cmd` after
RProbe(w) ==
  /\ pc[w] = "r_probe"
  /\ stages' = [stages EXCEPT ![w] = @ \cup {"resolve"}]
  /\ \E o \in ProbeOutcomes :
       LET i == ext[w].probe_idx
       IN  IF o = "ok"
           THEN /\ ext' = [ext EXCEPT ![w].tool = rscript_paths[i]]
                /\ pc' = [pc EXCEPT ![w] = "r_run"]
                /\ UNCHANGED <<result, fs>>
           ELSE IF i < Len(rscript_paths)
           THEN /\ ext' = [ext EXCEPT ![w].probe_idx = i + 1]
                /\ UNCHANGED <<pc, result, fs>>
           ELSE \* return result, through finally: os.unlink(r_file)
                /\ result' = [result EXCEPT ![w] = Fail(@, RMissingMsg)]
                /\ fs' = fs \ {Art(req[w].id, "src")}
                /\ pc' = [pc EXCEPT ![w] = "done"]
                /\ ext' = ext
  /\ UNCHANGED <<req, nreq, kept, http, pyVars, sql>>

\* run_process = subprocess.run([rscript_cmd, '--vanilla', '--slave', r_file], timeout=30)
RRun(w) ==
  /\ pc[w] = "r_run"
  /\ stages' = [stages EXCEPT ![w] = @ \cup {"run"}]
  /\ fs' = fs \ {Art(req[w].id, "src")}            \* finally: os.unlink(r_file)
  /\ \E o \in ROutcomes :
       IF o.kind = "exit"
       THEN LET output == IF o.out # <<>> THEN o.out ELSE NoOutputMsg
                error_lines == ErrorLines(o.err)
            IN  /\ result' = [result EXCEPT
                      ![w].status = IF o.rc = 0 THEN "success" ELSE "error",
                      ![w].output = IF Len(req[w].inputs) > 0
                                    THEN InputsHeader(req[w].inputs, output) ELSE output,
                      ![w].errors = IF error_lines # <<>>
                                    THEN Append(@, <<"R Messages:\n">> \o Join([i \in 1..Len(error_lines) |-> <<error_lines[i]>>], "\n"))
                                    ELSE @]
                /\ ext' = [ext EXCEPT ![w].child_out = o.out, ![w].run_rc = o.rc,
                                      ![w].run_err = StreamText(o.err)]
                /\ pc' = [pc EXCEPT ![w] = "done"]
       ELSE /\ result' = result
            /\ ext' = [ext EXCEPT ![w].exc = ExcOf(o), ![w].notfound = NotFoundAt(@, o, "run"), ![w].child_out = o.out,
                                  ![w].timed_out = (o.kind = "timeout"), ![w].running = AfterKill(o)]
            /\ pc' = [pc EXCEPT ![w] = "r_except"]
  /\ UNCHANGED <<req, nreq, kept, http, pyVars, sql>>

\* except subprocess.TimeoutExpired: ... except Exception as e: ... (r branch)
RExcept(w) ==
  /\ pc[w] = "r_except"
  /\ result' = [result EXCEPT ![w] =
        IF ext[w].exc = "TimeoutExpired" THEN Fail(@, RTimeoutMsg)
        ELSE Fail(@, <<"R execution error: ", ext[w].exc>>)]
  /\ ext' = [ext EXCEPT ![w].exc = "none"]
  /\ pc' = [pc EXCEPT ![w] = "done"]
  /\ UNCHANGED <<req, nreq, kept, http, pyVars, fs, sql, stages>>

\* ---- go
ShortNoOutputMsg == <<"Code executed successfully">>
GoMissingMsg == <<"Go not found! Install from https://go.dev/dl/">>

\* with tempfile.TemporaryDirectory() as temp_dir: write main.go
GoPrepare(w) ==
  /\ pc[w] = "go_prepare"
  /\ stages' = [stages EXCEPT ![w] = @ \cup {"prepare"}]
  /\ \E written \in BOOLEAN :
       IF written
       THEN /\ fs' = fs \cup {Art(req[w].id, "dir"), Art(req[w].id, "src")}
            /\ pc' = [pc EXCEPT ![w] = "go_run"]
            /\ ext' = ext
       ELSE /\ fs' = fs
            /\ pc' = [pc EXCEPT ![w] = "go_except"]
            /\ ext' = [ext EXCEPT ![w].exc = "Exception"]
  /\ UNCHANGED <<req, result, nreq, kept, http, pyVars, sql>>

\* run_process = subprocess.run(['go', 'run', go_file], timeout=30)
GoRun(w) ==
  /\ pc[w] = "go_run"
  /\ stages' = [stages EXCEPT ![w] = @ \cup {"run"}]
  /\ fs' = fs \ InDir(req[w].id)
  /\ \E o \in RunOutcomes :
       IF o.kind = "exit"
       THEN LET output == IF o.out # <<>> THEN o.out ELSE ShortNoOutputMsg
            IN  /\ result' = [result EXCEPT
                      ![w].status = IF o.rc = 0 THEN "success" ELSE "error",
                      ![w].output = IF Len(req[w].inputs) > 0
                                    THEN InputsHeader(req[w].inputs, output) ELSE output,
                      ![w].errors = IF o.err # <<>> THEN Append(@, <<"Error:\n">> \o o.err)
                                    ELSE @]
                /\ ext' = [ext EXCEPT ![w].child_out = o.out, ![w].run_rc = o.rc,
                                     ![w].run_err = o.err]
                /\ pc' = [pc EXCEPT ![w] = "done"]
       ELSE /\ result' = result
            /\ ext' = [ext EXCEPT ![w].exc = ExcOf(o), ![w].notfound = NotFoundAt(@, o, "run"), ![w].child_out = o.out,
                                  ![w].timed_out = (o.kind = "timeout"), ![w].running = AfterKill(o)]
            /\ pc' = [pc EXCEPT ![w] = "go_except"]
  /\ UNCHANGED <<req, nreq, kept, http, pyVars, sql>>

\* except FileNotFoundError: ... except Exception as e: ... (go branch)
GoExcept(w) ==
  /\ pc[w] = "go_except"
  /\ result' = [result EXCEPT ![w] =
        IF ext[w].exc = "FileNotFoundError" THEN Fail(@, GoMissingMsg)
        ELSE Fail(@, <<"Go execution error: ", ext[w].exc>>)]
  /\ ext' = [ext EXCEPT ![w].exc = "none"]
  /\ pc' = [pc EXCEPT ![w] = "done"]
  /\ UNCHANGED <<req, nreq, kept, http, pyVars, fs, sql, stages>>

\* ---- php
PhpMissingMsg == <<"PHP not found! Install from https://www.php.net/downloads">>

\* output.replace('<br>', '\n').replace('<br/>', '\n').replace('<br />', '\n')
BrToNewline(text) ==
  [i \in 1..Len(text) |-> IF text[i] \in {"<br>", "<br/>", "<br />"} THEN "\n" ELSE text[i]]

\* with tempfile.NamedTemporaryFile(suffix='.php', delete=False): temp_php.write(code)
PhpCreate(w) ==
  /\ pc[w] = "php_create"
  /\ stages' = [stages EXCEPT ![w] = @ \cup {"prepare"}]
  /\ fs' = fs \cup {Art(req[w].id, "src")}
  /\ \E written \in BOOLEAN :
       IF written
       THEN /\ pc' = [pc EXCEPT ![w] = "php_run"]
            /\ ext' = ext
       ELSE /\ pc' = [pc EXCEPT ![w] = "php_except"]
            /\ ext' = [ext EXCEPT ![w].exc = "Exception"]
  /\ UNCHANGED <<req, result, nreq, kept, http, pyVars, sql>>

\* run_process = subprocess.run(['php', php_file], timeout=30); finally: os.unlink
PhpRun(w) ==
  /\ pc[w] = "php_run"
  /\ stages' = [stages EXCEPT ![w] = @ \cup {"run"}]
  /\ fs' = fs \ {Art(req[w].id, "src")}
  /\ \E o \in RunOutcomes :
       IF o.kind = "exit"
       THEN /\ result' = [result EXCEPT
                 ![w].status = IF o.rc = 0 THEN "success" ELSE "error",
                 ![w].output = BrToNewline(IF o.out # <<>> THEN o.out ELSE ShortNoOutputMsg),
                 ![w].errors = IF o.err # <<>> THEN Append(@, <<"Error:\n">> \o o.err) ELSE @]
            /\ ext' = [ext EXCEPT ![w].child_out = o.out, ![w].run_rc = o.rc,
                                     ![w].run_err = o.err]
            /\ pc' = [pc EXCEPT ![w] = "done"]
       ELSE /\ result' = result
            /\ ext' = [ext EXCEPT ![w].exc = ExcOf(o), ![w].notfound = NotFoundAt(@, o, "run"), ![w].child_out = o.out,
                                  ![w].timed_out = (o.kind = "timeout"), ![w].running = AfterKill(o)]
            /\ pc' = [pc EXCEPT ![w] = "php_except"]
  /\ UNCHANGED <<req, nreq, kept, http, pyVars, sql>>

\* except FileNotFoundError: ... except Exception as e: ... (php branch)
PhpExcept(w) ==
  /\ pc[w] = "php_except"
  /\ result' = [result EXCEPT ![w] =
        IF ext[w].exc = "FileNotFoundError" THEN Fail(@, PhpMissingMsg)
        ELSE Fail(@, <<"PHP execution error: ", ext[w].exc>>)]
  /\ ext' = [ext EXCEPT ![w].exc = "none"]
  /\ pc' = [pc EXCEPT ![w] = "done"]
  /\ UNCHANGED <<req, nreq, kept, http, pyVars, fs, sql, stages>>

\* ---- typescript
TsMissingMsg == <<"TypeScript/Node.js not found!">>
TsInstallHint == <<"Install TypeScript: npm install -g typescript OR npm install -g ts-node">>

IsSpace(tok) == tok \in {" ", "\n"}
RECURSIVE LStrip(_)
LStrip(text) ==
  IF text # <<>> /\ IsSpace(Head(text)) THEN LStrip(Tail(text)) ELSE text
RECURSIVE RStrip(_)
RStrip(text) ==
  IF text # <<>> /\ IsSpace(text[Len(text)]) THEN RStrip(SubSeq(text, 1, Len(text) - 1))
  ELSE text
\* str.strip()
Strip(text) == RStrip(LStrip(text))

\* with tempfile.TemporaryDirectory() as temp_dir: write program.ts
TsPrepare(w) ==
  /\ pc[w] = "ts_prepare"
  /\ stages' = [stages EXCEPT ![w] = @ \cup {"prepare"}]
  /\ \E written \in BOOLEAN, win32 \in BOOLEAN :
       IF written
       THEN /\ fs' = fs \cup {Art(req[w].id, "dir"), Art(req[w].id, "src")}
            /\ pc' = [pc EXCEPT ![w] = "ts_node"]
            /\ ext' = [ext EXCEPT ![w].win32 = win32]      \* sys.platform == 'win32'
       ELSE /\ fs' = fs
            /\ pc' = [pc EXCEPT ![w] = "ts_except"]
            /\ ext' = [ext EXCEPT ![w].exc = "Exception"]
  /\ UNCHANGED <<req, result, nreq, kept, http, pyVars, sql>>

\* try: run_process = subprocess.run([ts_node_cmd, ts_file], timeout=30)
TsNode(w) ==
  /\ pc[w] = "ts_node"
  /\ stages' = [stages EXCEPT ![w] = @ \cup {"fast_run"}]
  /\ \E raw \in RunOutcomes :
       LET o == ViaShell(raw, ext[w].win32)
           missing == NotFoundAt(ext[w].notfound, raw, "fast_run")
       IN
       CASE o.kind = "exit" /\ o.rc = 0 ->
              /\ result' = [result EXCEPT
                    ![w].status = "success",
                    ![w].output = IF o.out # <<>> THEN o.out ELSE ShortNoOutputMsg,
                    ![w].errors = IF o.err # <<>> THEN Append(@, <<"Warnings:\n">> \o o.err)
                                  ELSE @]
              /\ ext' = [ext EXCEPT ![w].child_out = o.out, ![w].fast_rc = o.rc,
                                    ![w].run_rc = o.rc, ![w].run_err = o.err]
              /\ fs' = fs \ InDir(req[w].id)
              /\ pc' = [pc EXCEPT ![w] = "done"]
         [] o.kind = "exit" /\ o.rc # 0 ->   \* falls through to tsc + node
              /\ ext' = [ext EXCEPT ![w].child_out = o.out, ![w].fast_rc = o.rc,
                                    ![w].notfound = missing]
              /\ pc' = [pc EXCEPT ![w] = "ts_compile"]
              /\ UNCHANGED <<result, fs>>
         [] o.kind = "notfound" ->           \* except FileNotFoundError: pass
              /\ ext' = [ext EXCEPT ![w].notfound = missing]
              /\ pc' = [pc EXCEPT ![w] = "ts_compile"]
              /\ UNCHANGED <<result, fs>>
         [] OTHER ->
              /\ ext' = [ext EXCEPT ![w].exc = ExcOf(o), ![w].child_out = o.out,
                                    ![w].timed_out = (o.kind = "timeout"), ![w].running = AfterKill(o)]
              /\ fs' = fs \ InDir(req[w].id)
              /\ pc' = [pc EXCEPT ![w] = "ts_except"]
              /\ result' = result
  /\ UNCHANGED <<req, nreq, kept, http, pyVars, sql>>

\* compile_process = subprocess.run([tsc_cmd, ts_file, '--outFile', js_file, ...]);
\* the check that program.js exists
TsCompile(w) ==
  /\ pc[w] = "ts_compile"
  /\ stages' = [stages EXCEPT ![w] = @ \cup {"compile"}]
  /\ \E raw \in CompileOutcomes, js_exists \in BOOLEAN :
       LET o == ViaShell(raw, ext[w].win32) IN
       IF o.kind = "exit"
       THEN /\ ext' = [ext EXCEPT ![w].compile_rc = o.rc, ![w].compile_err = o.err,
                                  ![w].notfound = NotFoundAt(@, raw, "compile")]
            /\ IF o.rc # 0
               THEN LET stderr == Strip(o.err)
                    IN  /\ result' = [result EXCEPT ![w] =
                              Fail(Fail(@, IF stderr # <<>>
                                           THEN <<"TypeScript Compilation Error:\n">> \o stderr
                                           ELSE <<"TypeScript Compilation Error: tsc command failed">>),
                                   TsInstallHint)]
                        /\ fs' = fs \ InDir(req[w].id)
                        /\ pc' = [pc EXCEPT ![w] = "done"]
               ELSE IF js_exists
               THEN /\ result' = result
                    /\ fs' = fs \cup {Art(req[w].id, "js")}
                    /\ pc' = [pc EXCEPT ![w] = "ts_run"]
               ELSE /\ result' = [result EXCEPT ![w] =
                          Fail(@, <<"TypeScript compilation did not generate output file">>)]
                    /\ fs' = fs \ InDir(req[w].id)
                    /\ pc' = [pc EXCEPT ![w] = "done"]
       ELSE /\ ext' = [ext EXCEPT ![w].exc = ExcOf(o), ![w].timed_out = (o.kind = "timeout"), ![w].running = AfterKill(o),
                                  ![w].notfound = NotFoundAt(@, o, "compile")]
            /\ result' = result
            /\ fs' = fs \ InDir(req[w].id)
            /\ pc' = [pc EXCEPT ![w] = "ts_except"]
  /\ UNCHANGED <<req, nreq, kept, http, pyVars, sql>>

\* run_process = subprocess.run(['node', js_file], timeout=30)
TsRun(w) ==
  /\ pc[w] = "ts_run"
  /\ stages' = [stages EXCEPT ![w] = @ \cup {"run"}]
  /\ fs' = fs \ InDir(req[w].id)
  /\ \E o \in RunOutcomes :
       IF o.kind = "exit"
       THEN /\ result' = [result EXCEPT
                 ![w] = RunResult(@, o, "Runtime Error:\n", ShortNoOutputMsg)]
            /\ ext' = [ext EXCEPT ![w].child_out = o.out, ![w].run_rc = o.rc,
                                     ![w].run_err = o.err]
            /\ pc' = [pc EXCEPT ![w] = "done"]
       ELSE /\ result' = result
            /\ ext' = [ext EXCEPT ![w].exc = ExcOf(o), ![w].notfound = NotFoundAt(@, o, "run"), ![w].child_out = o.out,
                                  ![w].timed_out = (o.kind = "timeout"), ![w].running = AfterKill(o)]
            /\ pc' = [pc EXCEPT ![w] = "ts_except"]
  /\ UNCHANGED <<req, nreq, kept, http, pyVars, sql>>

\* except FileNotFoundError as e: ... except Exception as e: ... (typescript branch)
TsExcept(w) ==
  /\ pc[w] = "ts_except"
  /\ result' = [result EXCEPT ![w] =
        IF ext[w].exc = "FileNotFoundError" THEN Fail(@, TsMissingMsg)
        ELSE Fail(@, <<"TypeScript execution error: ", ext[w].exc>>)]
  /\ ext' = [ext EXCEPT ![w].exc = "none"]
  /\ pc' = [pc EXCEPT ![w] = "done"]
  /\ UNCHANGED <<req, nreq, kept, http, pyVars, fs, sql, stages>>

ExtStep(w) ==
  \/ Unsupported(w)
  \/ JavaCheck(w) \/ JavaPrepare(w) \/ JavaCompile(w) \/ JavaRun(w) \/ JavaExcept(w)
  \/ CPrepare(w) \/ CProbe(w) \/ CCompile(w) \/ CRun(w) \/ CExcept(w)
  \/ SqlCreate(w) \/ SqlStatement(w) \/ SqlFinish(w) \/ SqlExcept(w)
  \/ RCreate(w) \/ RProbe(w) \/ RRun(w) \/ RExcept(w)
  \/ GoPrepare(w) \/ GoRun(w) \/ GoExcept(w)
  \/ PhpCreate(w) \/ PhpRun(w) \/ PhpExcept(w)
  \/ TsPrepare(w) \/ TsNode(w) \/ TsCompile(w) \/ TsRun(w) \/ TsExcept(w)

\* Any worker serves any language, one request at a time.
Next == \E w \in Workers : Call(w) \/ PyStep(w) \/ ExtStep(w)

Spec == Init /\ [][Next]_vars

\* ------------------------------------------------- one call after another
\* Snippets that read: no read, one read, a read and a print, two reads.
ReadPrograms ==
  [body : {<<>>, <<"input">>, <<"input", "print">>, <<"input", "input">>}, term : TermOps]

\* The requests of the two-call specification: python snippets that read, a
\* language fed through stdin (go) without and with an input, and a language
\* resolved by probing (c).
RunRequests(id) ==
  [id : {id}, language : {"python"}, prog : ReadPrograms, stmts : {<<>>},
   inputs : InputLists, sized : {TRUE}, code : {<<>>}, given : {TRUE}]
  \cup [id : {id}, language : {"go"}, prog : {NoProg}, stmts : {<<>>},
        inputs : {<<>>, <<"3">>}, sized : {TRUE}, code : {<<>>}, given : {TRUE}]
  \cup [id : {id}, language : {"c"}, prog : {NoProg}, stmts : {<<>>},
        inputs : {<<>>}, sized : {TRUE}, code : {<<>>}, given : {TRUE}]

\* execute_code(code, language, user_inputs), called again and again
CallRun(w) ==
  /\ \A v \in Workers : pc[v] = "idle"
  /\ nreq < MaxRuns
  /\ \E r \in RunRequests(nreq + 1) :
       /\ req' = [req EXCEPT ![w] = r]
       /\ pc' = [pc EXCEPT ![w] = EntryPc(r.language)]
  /\ nreq' = nreq + 1
  /\ result' = [result EXCEPT ![w] = InitResult]
  /\ py' = [py EXCEPT ![w] = NoPy]
  /\ ext' = [ext EXCEPT ![w] = NoExt]
  /\ sql' = [sql EXCEPT ![w] = NoSql]
  /\ stages' = [stages EXCEPT ![w] = {}]
  /\ UNCHANGED <<sys_stdout, sys_stderr, bufs, fs, kept, http>>

\* What the caller holds after `return result`: the request, what the child
\* processes did, and the result.
Summary(w) ==
  [id |-> req[w].id, language |-> req[w].language, prog |-> req[w].prog,
   inputs |-> req[w].inputs, ext |-> ext[w], status |-> result[w].status,
   errors |-> result[w].errors, output |-> result[w].output]

\* return result: as Finish, and the caller may put the first result it wants
\* to compare later calls with on record.
FinishKeep(w) ==
  /\ pc[w] \in {"done", "raised"}
  /\ \E keep \in BOOLEAN :
       kept' = IF keep /\ kept = NoKept /\ pc[w] = "done" THEN Summary(w) ELSE kept
  /\ pc' = [pc EXCEPT ![w] = "idle"]
  /\ req' = [req EXCEPT ![w] = NoReq]
  /\ result' = [result EXCEPT ![w] = InitResult]
  /\ py' = [py EXCEPT ![w] = NoPy]
  /\ ext' = [ext EXCEPT ![w] = NoExt]
  /\ sql' = [sql EXCEPT ![w] = NoSql]
  /\ stages' = [stages EXCEPT ![w] = {}]
  /\ bufs' = IF req[w].id \in ReqIds /\ ~Referenced(req[w].id, w)
             THEN [bufs EXCEPT ![req[w].id] = [out |-> <<>>, err |-> <<>>]]
             ELSE bufs
  /\ UNCHANGED <<sys_stdout, sys_stderr, nreq, fs, http>>

\* One worker serves the calls, one after the other.
NextRuns ==
  \E w \in {"w1"} :
    \/ CallRun(w) \/ FinishKeep(w)
    \/ PySave(w) \/ PySwap(w) \/ PyPrint(w) \/ MockInputPrompt(w) \/ MockInputValue(w)
    \/ PyRaise(w) \/ PyNormalEnd(w) \/ PyEOFHandler(w) \/ PyExceptHandler(w)
    \/ PyFinally(w)
    \/ CPrepare(w) \/ CProbe(w) \/ CCompile(w) \/ CRun(w) \/ CExcept(w)
    \/ GoPrepare(w) \/ GoRun(w) \/ GoExcept(w)

SpecRuns == Init /\ [][NextRuns]_vars

\* ------------------------------------------------- the /api/compile handler
\* The languages the handler executes directly, without the compiler.
Direct == {"java", "sql", "r", "c", "cpp", "go", "php", "typescript"}

\* The code field of a request body: absent or '' (NoCode), a python snippet,
\* sql statements, or source text of a language whose program is run by a
\* child process.
ApiCodes(language) ==
  {NoCode} \cup
  (CASE language = "python" -> [empty : {FALSE}, prog : SmallPrograms, stmts : {<<>>}]
     [] language = "sql" ->
          [empty : {FALSE}, prog : {NoProg}, stmts : {<<"CREATE">>, <<"SELECT">>, <<"BAD_ENCODING">>}]
     [] OTHER -> [empty : {FALSE}, prog : {NoProg}, stmts : {<<>>}])

\* What compiler.compile(source_code) hands back: result['success'], and the
\* corrected variant of the snippet when the analyzer made one; "raises" is an
\* exception of the compiler.
CompileResults(code) ==
  [kind : {"ok", "failed"}, corrected_code : {NoCode, code, [code EXCEPT !.prog.body = <<"print">> \o @]}]
  \cup [kind : {"raises"}, corrected_code : {NoCode}]

\* data = request.get_json(); source_code, language, user_inputs; the check for
\* an empty code; the languages that skip the compiler
ApiReceive(w) ==
  /\ \A v \in Workers : pc[v] = "idle"
  /\ nreq < MaxRequests
  /\ \E language \in Languages, body_ok \in BOOLEAN :
     \E code \in ApiCodes(language), inputs \in {<<>>, <<"3">>},
        sized \in (IF language = "python" THEN BOOLEAN ELSE {TRUE}) :
       IF ~body_ok
       THEN \* no JSON body: data.get raises, caught by the handler's except
            /\ http' = [http EXCEPT ![w] = NoHttp]
            /\ pc' = [pc EXCEPT ![w] = "h_except"]
       ELSE /\ http' = [http EXCEPT ![w] =
                  [NoHttp EXCEPT !.source_code = code, !.language = language,
                                 !.inputs = IF sized THEN inputs ELSE <<>>, !.sized = sized,
                                 !.response = IF code.empty THEN "400" ELSE "none"]]
            /\ pc' = [pc EXCEPT ![w] = CASE code.empty -> "h_done"
                                         [] language \in Direct -> "h_call"
                                         [] OTHER -> "h_compile"]
  /\ UNCHANGED <<req, result, nreq, kept, pyVars, extVars>>

\* compiler = AIMLCompiler(language); result = compiler.compile(source_code, ...);
\* if result.get('success', False): ... else return jsonify(result)
ApiCompile(w) ==
  /\ pc[w] = "h_compile"
  /\ \E c \in CompileResults(http[w].source_code) :
       /\ http' = [http EXCEPT ![w].compiled = c.kind, ![w].corrected_code = c.corrected_code,
                               ![w].response = IF c.kind = "failed" THEN "200" ELSE @]
       /\ pc' = [pc EXCEPT ![w] = CASE c.kind = "ok" -> "h_call"
                                    [] c.kind = "failed" -> "h_done"
                                    [] OTHER -> "h_except"]
  /\ UNCHANGED <<req, result, nreq, kept, pyVars, extVars>>

CodeToExecute_Corrected(source_code, corrected_code) ==
  IF corrected_code.empty THEN source_code ELSE corrected_code
\* code_to_execute = source_code  # Use original code
CodeToExecute(source_code, corrected_code) == source_code

\* execution_result = execute_code(code_to_execute, language, user_inputs)
ApiCall(w) ==
  /\ pc[w] = "h_call"
  /\ LET code == CodeToExecute(http[w].source_code, http[w].corrected_code)
     IN  /\ req' = [req EXCEPT ![w] =
                [id |-> nreq + 1, language |-> http[w].language, prog |-> code.prog,
                 stmts |-> code.stmts, inputs |-> http[w].inputs, sized |-> http[w].sized,
                 code |-> <<>>, given |-> TRUE]]
         /\ http' = [http EXCEPT ![w].executed = code, ![w].calls = @ + 1]
  /\ pc' = [pc EXCEPT ![w] = EntryPc(http[w].language)]
  /\ nreq' = nreq + 1
  /\ result' = [result EXCEPT ![w] = InitResult]
  /\ py' = [py EXCEPT ![w] = NoPy]
  /\ ext' = [ext EXCEPT ![w] = NoExt]
  /\ sql' = [sql EXCEPT ![w] = NoSql]
  /\ stages' = [stages EXCEPT ![w] = {}]
  /\ UNCHANGED <<sys_stdout, sys_stderr, bufs, fs, kept>>

ResponseSuccess_ByStatus(status) == status = "success"
\* 'success': True of the direct languages' responses, and the compiler's
\* result['success'], which is true whenever the code was executed
ResponseSuccess(status) == TRUE

\* execute_code returned: print(f"Execution result ...") on sys.stdout, whatever
\* it designates now, and return jsonify(...).  A SystemExit that left
\* execute_code is no Exception: it leaves the handler too, with no response
\* of the handler's.
ApiReturn(w) ==
  /\ pc[w] \in {"done", "raised"}
  /\ http' = [http EXCEPT ![w].response = IF pc[w] = "done" THEN "200" ELSE "raised",
                          ![w].success = (pc[w] = "done" /\ ResponseSuccess(result[w].status)),
                          ![w].execution = IF pc[w] = "done" THEN result[w].status ELSE @]
  /\ pc' = [pc EXCEPT ![w] = "h_done"]
  /\ req' = [req EXCEPT ![w] = NoReq]
  /\ result' = [result EXCEPT ![w] = InitResult]
  /\ py' = [py EXCEPT ![w] = NoPy]
  /\ ext' = [ext EXCEPT ![w] = NoExt]
  /\ sql' = [sql EXCEPT ![w] = NoSql]
  /\ stages' = [stages EXCEPT ![w] = {}]
  /\ bufs' = IF pc[w] = "done" /\ sys_stdout # Console
             THEN WriteTo(sys_stdout, <<"log">>)
             ELSE IF req[w].id \in ReqIds /\ ~Referenced(req[w].id, w)
             THEN [bufs EXCEPT ![req[w].id] = [out |-> <<>>, err |-> <<>>]]
             ELSE bufs
  /\ UNCHANGED <<sys_stdout, sys_stderr, nreq, fs, kept>>

\* except Exception as e: return jsonify({'success': False, 'error': str(e)}), 500
ApiExcept(w) ==
  /\ pc[w] = "h_except"
  /\ http' = [http EXCEPT ![w].response = "500", ![w].success = FALSE]
  /\ pc' = [pc EXCEPT ![w] = "h_done"]
  /\ UNCHANGED <<req, result, nreq, kept, pyVars, extVars>>

\* the response is on its way; the worker takes the next request
ApiRespond(w) ==
  /\ pc[w] = "h_done"
  /\ http' = [http EXCEPT ![w] = NoHttp]
  /\ pc' = [pc EXCEPT ![w] = "idle"]
  /\ UNCHANGED <<req, result, nreq, kept, pyVars, extVars>>

ApiStep(w) ==
  \/ ApiReceive(w) \/ ApiCompile(w) \/ ApiCall(w) \/ ApiReturn(w) \/ ApiExcept(w)
  \/ ApiRespond(w)

\* execute_code as the handler runs it
ExecStep(w) ==
  \/ PySave(w) \/ PySwap(w) \/ PyPrint(w) \/ MockInputPrompt(w) \/ MockInputValue(w)
  \/ PyRaise(w) \/ PyNormalEnd(w) \/ PyEOFHandler(w) \/ PyExceptHandler(w)
  \/ PyFinally(w) \/ OuterExcept(w)
  \/ ExtStep(w)

NextApi == \E w \in Workers : ApiStep(w) \/ ExecStep(w)

SpecApi == Init /\ [][NextApi]_vars

\* ------------------------------------------------- java snippets, word by word
JavaWords == {"public", "class", "A", "B"}
JavaSnippets == SeqsUpTo(JavaWords, MaxJavaWords)

JavaRequests(id) ==
  [id : {id}, language : {"java"}, prog : {NoProg}, stmts : {<<>>},
   inputs : {<<>>}, sized : {TRUE}, code : JavaSnippets, given : {TRUE}]

\* execute_code(code, 'java', []) for every snippet
CallJava(w) ==
  /\ pc[w] = "idle"
  /\ nreq < MaxRequests
  /\ \E r \in JavaRequests(nreq + 1) :
       /\ req' = [req EXCEPT ![w] = r]
       /\ pc' = [pc EXCEPT ![w] = EntryPc(r.language)]
  /\ nreq' = nreq + 1
  /\ result' = [result EXCEPT ![w] = InitResult]
  /\ py' = [py EXCEPT ![w] = NoPy]
  /\ ext' = [ext EXCEPT ![w] = NoExt]
  /\ sql' = [sql EXCEPT ![w] = NoSql]
  /\ stages' = [stages EXCEPT ![w] = {}]
  /\ UNCHANGED <<sys_stdout, sys_stderr, bufs, fs, kept, http>>

NextJava ==
  \E w \in {"w1"} :
    \/ CallJava(w) \/ JavaCheck(w) \/ JavaPrepare(w) \/ JavaCompile(w) \/ JavaRun(w)
    \/ JavaExcept(w) \/ Finish(w)

SpecJava == Init /\ [][NextJava]_vars

\* ------------------------------------------------- r snippets, token by token
\* The statements an r snippet is made of: another statement, the bare read
\* (no prompt, a prompt, a prompt built by a call) and the wrapped reads.
Wrapped(head) == <<head, "(", "readline", "(", "p", ")", ")">>
RStatements ==
  { <<"x">>,
    <<"readline", "(", ")">>,
    <<"readline", "(", "p", ")">>,
    <<"readline", "(", "paste", "(", "p", ")", ")">>,
    Wrapped("as.integer"), Wrapped("as.numeric"), Wrapped("character"),
    Wrapped("as.character") }

RECURSIVE Concat(_)
Concat(ss) == IF ss = <<>> THEN <<>> ELSE Head(ss) \o Concat(Tail(ss))

RSnippets == {Concat(ss) : ss \in SeqsUpTo(RStatements, MaxRStmts)}

RRequests(id) ==
  [id : {id}, language : {"r"}, prog : {NoProg}, stmts : {<<>>},
   inputs : {<<>>}, sized : {TRUE}, code : RSnippets, given : {TRUE}]

\* execute_code(code, 'r', []) for every snippet
CallR(w) ==
  /\ pc[w] = "idle"
  /\ nreq < MaxRequests
  /\ \E r \in RRequests(nreq + 1) :
       /\ req' = [req EXCEPT ![w] = r]
       /\ pc' = [pc EXCEPT ![w] = EntryPc(r.language)]
  /\ nreq' = nreq + 1
  /\ result' = [result EXCEPT ![w] = InitResult]
  /\ py' = [py EXCEPT ![w] = NoPy]
  /\ ext' = [ext EXCEPT ![w] = NoExt]
  /\ sql' = [sql EXCEPT ![w] = NoSql]
  /\ stages' = [stages EXCEPT ![w] = {}]
  /\ UNCHANGED <<sys_stdout, sys_stderr, bufs, fs, kept, http>>

NextR ==
  \E w \in {"w1"} :
    \/ CallR(w) \/ RCreate(w) \/ RProbe(w) \/ RRun(w) \/ RExcept(w) \/ Finish(w)

SpecR == Init /\ [][NextR]_vars

\* ------------------------------------------------- python snippets that read
\* Snippets of input() calls only, as many as MaxReads, with the inputs absent
\* (user_inputs=None), empty, or one value long.
ReadBodies == {[i \in 1..k |-> "input"] : k \in 0..MaxReads}

ReadRequests(id) ==
  [id : {id}, language : {"python"}, prog : [body : ReadBodies, term : TermOps],
   stmts : {<<>>}, inputs : {<<>>, <<"3">>}, sized : {TRUE}, code : {<<>>},
   given : {TRUE}]
  \cup [id : {id}, language : {"python"}, prog : [body : ReadBodies, term : TermOps],
        stmts : {<<>>}, inputs : {<<>>}, sized : {TRUE}, code : {<<>>},
        given : {FALSE}]

CallReads(w) ==
  /\ pc[w] = "idle"
  /\ nreq < MaxRequests
  /\ \E r \in ReadRequests(nreq + 1) :
       /\ req' = [req EXCEPT ![w] = r]
       /\ pc' = [pc EXCEPT ![w] = EntryPc(r.language)]
  /\ nreq' = nreq + 1
  /\ result' = [result EXCEPT ![w] = InitResult]
  /\ py' = [py EXCEPT ![w] = NoPy]
  /\ ext' = [ext EXCEPT ![w] = NoExt]
  /\ sql' = [sql EXCEPT ![w] = NoSql]
  /\ stages' = [stages EXCEPT ![w] = {}]
  /\ UNCHANGED <<sys_stdout, sys_stderr, bufs, fs, kept, http>>

NextReads ==
  \E w \in {"w1"} :
    \/ CallReads(w) \/ PySave(w) \/ PySwap(w) \/ MockInputPrompt(w) \/ MockInputValue(w)
    \/ PyRaise(w) \/ PyNormalEnd(w) \/ PyEOFHandler(w) \/ PyExceptHandler(w)
    \/ PyFinally(w) \/ Finish(w)

SpecReads == Init /\ [][NextReads]_vars

\* ======================================================================
\* Properties
\* ======================================================================
Returned(w) == pc[w] = "done"
IsPython(w) == req[w].language = "python"

\* C1: execute_code always returns a result record and never raises: no fault
\* inside a strategy, a process-exit request of the snippet included, reaches
\* the caller.
C1_NeverRaises == \A w \in Workers : pc[w] # "raised"

\* C2: every scratch artifact created for a request no longer exists when
\* execute_code returns, on every exit path.
C2_NoArtifactLeft ==
  \A w \in Workers :
    pc[w] \in {"done", "raised"} => ~ \E a \in fs : a.req = req[w].id

\* C3: concurrent python evaluations do not interleave on the redirection: the
\* output a call returns is exactly the text its own snippet wrote (or the
\* placeholder when it wrote nothing).
C3_OutputIsOwn ==
  \A w \in Workers :
    Returned(w) /\ IsPython(w) =>
      \/ result[w].output = py[w].written
      \/ py[w].written = <<>> /\ result[w].output = NoOutputMsg

\* C4: once every in-process evaluation has ended, sys.stdout and sys.stderr
\* designate the targets they had before the first one started.
C4_ChannelsRestored ==
  (\A w \in Workers : pc[w] \in {"idle", "done", "raised"}) =>
    sys_stdout = Console /\ sys_stderr = Console

\* C5: an unsupported language tag goes straight to the 'unknown_language'
\* result: no stage is started, so no file or directory is created and no
\* process is spawned.
C5_UnsupportedTouchesNothing ==
  \A w \in Workers :
    req[w].language \notin Supported \cup {"none"} =>
      /\ pc[w] \in {"else", "done"}
      /\ stages[w] = {}
      /\ ~ \E a \in fs : a.req = req[w].id
      /\ Returned(w) => result[w].status = "unknown_language"

C5_Witness ==
  \E w \in Workers : Returned(w) /\ req[w].language = "ruby"
                     /\ result[w].status = "unknown_language"

\* C6: in every returned result, errors is non-empty whenever the status is
\* not 'success'.
C6_ErrorsWhenNotSuccess ==
  \A w \in Workers :
    Returned(w) /\ result[w].status # "success" => result[w].errors # <<>>

CompileThenRun == {"java", "c", "cpp", "typescript"}
CompileFailed(w) == ext[w].compile_rc \notin {0, -1}
InErrors(w, text) ==
  \E i \in 1..Len(result[w].errors) : Contains(result[w].errors[i], text)

\* the order of the stages, common to the original and the amended C7
C7_RunOnlyAfterCompile(w) ==
  /\ CompileFailed(w) => "run" \notin stages[w] /\ pc[w] = "done"
  /\ "run" \in stages[w] => ext[w].compile_rc = 0

TimeoutMsgs == {JavaTimeoutMsg, CTimeoutMsg, RTimeoutMsg}
C8_TimeoutResult ==
  \A w \in Workers :
    Returned(w) /\ ext[w].timed_out =>
      /\ result[w].status \notin {"error", "success", "unknown", "unknown_language"}
      /\ Len(result[w].errors) = 1 /\ result[w].errors[1] \in TimeoutMsgs
      /\ ext[w].child_out # <<>> => ~ Contains(result[w].output, ext[w].child_out)

\* What the sql loop must have built after its first n statements, when a
\* statement that fails with a database error is skipped and nothing else:
\* the database, the output lines, the error entries.
RECURSIVE ReplayDb(_, _)
ReplayDb(stmts, n) ==
  IF n = 0 THEN NoDb
  ELSE LET db == ReplayDb(stmts, n - 1)
       IN  IF ExecOutcome(stmts[n], db) = "ok" THEN ExecEffect(stmts[n], db) ELSE db

RECURSIVE ReplayLines(_, _)
ReplayLines(stmts, n) ==
  IF n = 0 THEN <<>>
  ELSE LET db == ReplayDb(stmts, n - 1)
       IN  IF ExecOutcome(stmts[n], db) = "ok"
           THEN ReplayLines(stmts, n - 1) \o StmtLines(stmts[n], ReplayDb(stmts, n))
           ELSE ReplayLines(stmts, n - 1)

RECURSIVE ReplayErrors(_, _)
ReplayErrors(stmts, n) ==
  IF n = 0 THEN <<>>
  ELSE LET db == ReplayDb(stmts, n - 1)
       IN  IF ExecOutcome(stmts[n], db) = "dberror"
           THEN Append(ReplayErrors(stmts, n - 1), SqlErrorEntry(stmts[n]))
           ELSE ReplayErrors(stmts, n - 1)

RECURSIVE ReadsBefore(_, _)
ReadsBefore(body, ip) ==
  IF ip <= 1 THEN 0
  ELSE ReadsBefore(body, ip - 1) + (IF body[ip - 1] = "input" THEN 1 ELSE 0)

ClaimedRead(inputs, i) == IF i <= Len(inputs) THEN inputs[i] ELSE "default"

RECURSIVE Transcript(_, _, _, _)
Transcript(id, body, inputs, ip) ==
  IF ip <= 1 THEN <<>>
  ELSE Transcript(id, body, inputs, ip - 1) \o
       (IF body[ip - 1] = "input"
        THEN <<PromptTok(id), ClaimedRead(inputs, ReadsBefore(body, ip)), "\n">>
        ELSE <<PrintTok(id)>>)

\* C10: with a non-empty inputs list of length n, the i-th input() call
\* (i <= n) returns the i-th value and advances the cursor by one, every later
\* call returns "default" and leaves the cursor, and each call appends prompt,
\* value and newline to the captured output, in call order.
C10_MockInput ==
  \A w \in Workers :
    IsPython(w) /\ pc[w] = "py_exec" /\ Len(req[w].inputs) > 0 =>
      LET n == Len(req[w].inputs)
          reads == py[w].reads
      IN  /\ Len(reads) = ReadsBefore(req[w].prog.body, py[w].ip)
          /\ \A i \in 1..Len(reads) : reads[i] = ClaimedRead(req[w].inputs, i)
          /\ py[w].mock_index = IF Len(reads) <= n THEN Len(reads) ELSE n
          /\ bufs[req[w].id].out = Transcript(req[w].id, req[w].prog.body, req[w].inputs, py[w].ip)

\* two reads of a one-value list
C10_Witness ==
  \E w \in Workers :
    /\ IsPython(w) /\ pc[w] = "py_exec" /\ req[w].inputs = <<"3">>
    /\ py[w].reads = <<"3", "default">>
    /\ py[w].mock_index = 1

\* ---- two calls of the same program
\* The characters of a text: a token carries the id of the call that wrote it
\* (who wrote what), which is no part of the text the caller reads.
Plain(text) ==
  [i \in 1..Len(text) |->
     IF \E id \in ReqIds : text[i] = PrintTok(id) THEN "out"
     ELSE IF \E id \in ReqIds : text[i] = PromptTok(id) THEN "prompt"
     ELSE text[i]]

\* the number of reads a snippet performs
ReadsOf(prog) == Cardinality({i \in 1..Len(prog.body) : prog.body[i] = "input"})

AgreeOnFirst(a, b, k) ==
  /\ Len(a) >= k
  /\ Len(b) >= k
  /\ SubSeq(a, 1, k) = SubSeq(b, 1, k)

\* The call of w has returned, an earlier call of the same program in the same
\* language is on record, and the child processes of the two calls (which the
\* engine does not control) did the same.
SameProgramAgain(w) ==
  /\ Returned(w)
  /\ kept.id # 0
  /\ kept.language = req[w].language
  /\ kept.prog = req[w].prog
  /\ kept.ext = ext[w]
  /\ ~IsPython(w) => (kept.status = result[w].status /\ kept.errors = result[w].errors)

\* C11: for every supported language, a program that performs k reads gives
\* the same output with any two inputs lists that agree on their first k
\* values: values beyond the consumed prefix never change output.
C11_UnreadInputsIrrelevant ==
  \A w \in Workers :
    (SameProgramAgain(w)
     /\ AgreeOnFirst(kept.inputs, req[w].inputs, ReadsOf(req[w].prog)))
    => Plain(result[w].output) = Plain(kept.output)

\* C12: two executions of the same interactive-read program, in the same
\* language and with the same ordered inputs list, return identical output,
\* whatever was executed before or between them.
C12_RepeatedRunSameOutput ==
  \A w \in Workers :
    (SameProgramAgain(w) /\ kept.inputs = req[w].inputs)
    => Plain(result[w].output) = Plain(kept.output)

\* a snippet that reads twice and prints has returned a second time, with another
\* call between the two
C12_Witness ==
  \E w \in Workers :
    /\ SameProgramAgain(w)
    /\ kept.inputs = req[w].inputs
    /\ IsPython(w)
    /\ ReadsOf(req[w].prog) >= 1
    /\ Len(req[w].inputs) >= 1
    /\ result[w].status = "success"
    /\ req[w].id > kept.id + 1

\* C13: toolchain resolution is cached per language: once a candidate has
\* answered the version probe for a language, no later request of that
\* language probes again.
C13_ResolvedOnce ==
  \A w \in Workers :
    (kept.id # 0 /\ kept.language = req[w].language /\ kept.ext.tool # "none")
    => "resolve" \notin stages[w]

\* ---- results of the external-process strategies
RunCompleted(w) == ext[w].run_rc # -1

\* C14: for every run stage that completes: exit code 0 with an empty error
\* stream gives status success and empty errors; exit code 0 with a non-empty
\* error stream gives status success with the error-stream text in errors; a
\* non-zero exit code gives status error with the error stream as diagnostic.
C14_RunResultByExitCode ==
  \A w \in Workers :
    Returned(w) =>
      /\ (RunCompleted(w) /\ ext[w].run_rc = 0 /\ ext[w].run_err = <<>>) =>
            (result[w].status = "success" /\ result[w].errors = <<>>)
      /\ (RunCompleted(w) /\ ext[w].run_rc = 0 /\ ext[w].run_err # <<>>) =>
            (result[w].status = "success" /\ InErrors(w, ext[w].run_err))
      /\ (RunCompleted(w) /\ ext[w].run_rc # 0) =>
            (result[w].status = "error"
             /\ (ext[w].run_err # <<>> => InErrors(w, ext[w].run_err)))
      \* the fast-path run of typescript is a run stage too
      /\ ext[w].fast_rc \notin {-1, 0} => result[w].status = "error"

\* C15: the output of a returned result is never empty: a result without
\* output text (fault, compile failure, missing tool and timeout included)
\* carries the fixed 'no output' placeholder.
C15_OutputNeverEmpty ==
  \A w \in Workers : Returned(w) => result[w].output # <<>>

\* C16: in the typescript strategy ts-node is attempted first and the tsc +
\* node path is entered only if the ts-node binary is unavailable: a program
\* that ts-node ran and that exited non-zero is not compiled and run again.
C16_FallbackOnlyWhenUnavailable ==
  \A w \in Workers :
    (req[w].language = "typescript" /\ "compile" \in stages[w]) =>
      /\ "fast_run" \in stages[w]
      /\ "fast_run" \in ext[w].notfound

\* the stages whose process was started (the binary existed)
Started(w) == stages[w] \ ext[w].notfound

\* No candidate binary of the language is available: the probe loop (r, c,
\* cpp) or the existence check (java) found none, the one command of go or
\* php does not exist, neither ts-node nor tsc exists.
NoCandidate(w) ==
  CASE req[w].language \in {"java", "r", "c", "cpp"} ->
         "resolve" \in stages[w] /\ ext[w].tool = "none"
    [] req[w].language \in {"go", "php"} -> "run" \in ext[w].notfound
    [] req[w].language = "typescript" -> {"fast_run", "compile"} \subseteq ext[w].notfound
    [] OTHER -> FALSE

\* the entry that reports the missing tool of a language, with what to install
MissingMsgOf(language) ==
  CASE language = "java" -> JdkMissingMsg
    [] language = "r" -> RMissingMsg
    [] language \in {"c", "cpp"} -> CMissingMsg(language)
    [] language = "go" -> GoMissingMsg
    [] language = "php" -> PhpMissingMsg
    [] OTHER -> TsMissingMsg

\* C17: whenever no candidate binary of an external language is available the
\* result is the tool-missing fault of the language, carrying its installation
\* guidance, and neither a compile stage nor a run stage was started.
C17_ToolMissing ==
  \A w \in Workers :
    (Returned(w) /\ NoCandidate(w)) =>
      /\ result[w].status # "success"
      /\ result[w].errors = <<MissingMsgOf(req[w].language)>>
      /\ Started(w) \cap {"compile", "run", "fast_run"} = {}

External == Supported \ {"python", "sql"}

\* C19: an external request resolves its toolchain before it prepares the
\* source, so a request that ends with the tool missing has written no
\* scratch file or directory.
C19_ResolveBeforePrepare ==
  \A w \in Workers :
    req[w].language \in External =>
      /\ "prepare" \in stages[w] => "resolve" \in stages[w]
      /\ (Returned(w) /\ NoCandidate(w)) => "prepare" \notin stages[w]

BareNames == {"gcc", "g++", "Rscript"}
Candidates(language) == IF language = "r" THEN rscript_paths ELSE CCandidates(language)

\* C20: for r, c and cpp the candidates are probed in list order, the bare
\* command name first and the install paths after it, and the selected
\* binary is the candidate reached after every earlier one failed its probe.
C20_BareNameFirst ==
  \A w \in Workers :
    req[w].language \in {"r", "c", "cpp"} =>
      /\ pc[w] \in {"c_probe", "r_probe"} =>
            (Candidates(req[w].language)[ext[w].probe_idx] \in BareNames
               <=> ext[w].probe_idx = 1)
      /\ ext[w].tool # "none" =>
            ext[w].tool = Candidates(req[w].language)[ext[w].probe_idx]

\* ---- the /api/compile handler
InHandler(w) == http[w].language # "none"

\* C18: the handler always executes the original caller-supplied code: what
\* it passes to execute_code is the request's code field, for every language
\* and also when the analyzer made a corrected variant, and the handler never
\* changes the request's code.
C18_ExecutesOriginal ==
  [][\A w \in Workers :
       /\ (pc[w] = "h_call" /\ pc'[w] # "h_call") =>
            /\ req'[w].prog = http[w].source_code.prog
            /\ req'[w].stmts = http[w].source_code.stmts
            /\ http'[w].executed = http[w].source_code
       /\ (InHandler(w) /\ pc'[w] # "idle") =>
            http'[w].source_code = http[w].source_code]_vars

\* a python snippet is being executed although the analyzer made a variant of it
C18_Witness ==
  \E w \in Workers :
    /\ Returned(w) /\ IsPython(w)
    /\ http[w].calls = 1
    /\ http[w].compiled = "ok"
    /\ ~http[w].corrected_code.empty
    /\ http[w].corrected_code # http[w].source_code
    /\ http[w].executed = http[w].source_code

\* ---- what a timed-out stage leaves running
\* C21: when a compile or run stage exceeds its ceiling, the whole process tree
\* of the stage (the child and every process it started) is terminated before
\* execute_code returns: nothing started for the request is still running once
\* the result has been returned.
C21_TreeTerminated ==
  \A w \in Workers :
    Returned(w) /\ ext[w].timed_out => ext[w].running = {}

\* ---- a fault of the evaluated snippet
\* the snippet of w ended in a fault after it had written something
FaultAfterOutput(w) ==
  /\ IsPython(w)
  /\ pc[w] \in {"done", "raised"}
  /\ req[w].prog.term # "end"
  /\ py[w].written # <<>>

\* C22: when the evaluated snippet raises a fault after writing some output, the
\* returned output is exactly the text written before the fault, the status is
\* error and exactly one diagnostic is in errors, prefixed with "Line <n>: "
\* where n is the line of the snippet's frame (here: the raising statement).
C22_PartialOutputAndLine ==
  \A w \in Workers :
    FaultAfterOutput(w) =>
      /\ Returned(w)
      /\ result[w].output = py[w].written
      /\ result[w].status = "error"
      /\ Len(result[w].errors) = 1
      /\ Len(result[w].errors[1]) >= 3
      /\ SubSeq(result[w].errors[1], 1, 3)
           = <<"Line ", ToString(Len(req[w].prog.body) + 1), ": ">>

\* ---- the java entry type
\* the names declared by `public class <name>` / `class <name>`, left to right
RECURSIVE Declared(_, _)
Declared(code, pattern) ==
  IF Len(code) <= Len(pattern) THEN <<>>
  ELSE (IF SubSeq(code, 1, Len(pattern)) = pattern THEN <<code[Len(pattern) + 1]>> ELSE <<>>)
       \o Declared(Tail(code), pattern)

PublicClasses(code) == Declared(code, <<"public", "class">>)
AnyClasses(code) == Declared(code, <<"class">>)

\* the java call of w has written its source file / started its run stage
JavaWritten(w) == req[w].language = "java" /\ ext[w].java_file # <<>>
JavaInvoked(w) == req[w].language = "java" /\ ext[w].invoked # ""

\* C23 as stated: the entry-type name is the first public class of the snippet,
\* and "Main" whenever the snippet declares no public class; the file written
\* and the class invoked carry the same name.
C23_PublicClassOrMain ==
  \A w \in Workers :
    /\ JavaWritten(w) =>
         ext[w].java_file =
           <<IF PublicClasses(req[w].code) # <<>> THEN Head(PublicClasses(req[w].code))
             ELSE DefaultClassName, ".java">>
    /\ JavaInvoked(w) => <<ext[w].invoked, ".java">> = ext[w].java_file

\* C23 amended: the first public class; without one, the first class of any
\* visibility; "Main" only when the snippet declares no class at all.  The
\* same name is used for the file written and for the class invoked.
C23_EntryTypeName ==
  \A w \in Workers :
    /\ JavaWritten(w) =>
         ext[w].java_file =
           <<IF PublicClasses(req[w].code) # <<>> THEN Head(PublicClasses(req[w].code))
             ELSE IF AnyClasses(req[w].code) # <<>> THEN Head(AnyClasses(req[w].code))
             ELSE DefaultClassName, ".java">>
    /\ JavaInvoked(w) => <<ext[w].invoked, ".java">> = ext[w].java_file

\* a snippet whose first class is not public and whose second is: the run
\* stage was started with the public one
C23_Witness ==
  \E w \in Workers :
    /\ JavaInvoked(w)
    /\ req[w].code = <<"class", "A", "public", "class", "B">>
    /\ ext[w].invoked = "B"

\* ---- the r interactive-read rewriting
\* The reads and the other statements of a text, left to right: a call of
\* readline in the source, a call of scan on the input channel after rewriting.
RECURSIVE Marks(_, _)
Marks(code, i) ==
  IF i > Len(code) THEN <<>>
  ELSE (CASE code[i] = "x" -> <<"x">>
          [] code[i] = "readline" /\ i < Len(code) /\ code[i + 1] = "(" -> <<"read">>
          [] code[i] = ScanCall -> <<"read">>
          [] OTHER -> <<>>)
       \o Marks(code, i + 1)

Rewritten(w) == req[w].language = "r" /\ "prepare" \in stages[w]

\* C24: the rewriting replaces every recognized read call by exactly one
\* one-token read of the input channel at the same position (the reads are as
\* many and in the same order as in the source), and the rewritten text has no
\* readline call that the patterns recognize.
C24_ReadsPreserved ==
  \A w \in Workers :
    Rewritten(w) =>
      /\ Marks(ext[w].transformed_code, 1) = Marks(req[w].code, 1)
      /\ \A i \in 1..Len(ext[w].transformed_code) :
            CallEnd(ext[w].transformed_code, i) = 0

\* ---- the status of a returned result
\* The result schema's statuses, in the spelling of the code where it has one:
\* Success, Error, Timeout, ToolMissing, UnsupportedLanguage.
StatusSchema == {"success", "error", "timeout", "tool_missing", "unknown_language"}

\* C25: every result returned by execute_code has a status of the schema's
\* fixed set; the initial placeholder 'unknown' is never returned.
C25_StatusAssigned ==
  \A w \in Workers :
    Returned(w) => result[w].status \in StatusSchema /\ result[w].status # InitResult.status

\* a call returned through an exception handler, the path on which the status
\* is assigned last
C25_Witness ==
  \E w \in Workers :
    /\ Returned(w)
    /\ ext[w].timed_out
    /\ result[w].status = "error"

\* ---- reads without inputs
\* the values the claim lists for the reads of a call without inputs
BuiltInRead(i) ==
  IF i <= 7 THEN <<"5", "10", "test", "hello", "20", "3.14", "yes">>[i] ELSE "default"

NoInputs(w) == IsPython(w) /\ (~req[w].given \/ Len(req[w].inputs) = 0)

\* C26: with the inputs list empty or absent the read primitive does not start
\* exhausted: the reads return "5", "10", "test", "hello", "20", "3.14", "yes"
\* in that order and "default" from the eighth on; every read returns a value,
\* the read primitive itself never signals end-of-input.
C26_BuiltInValues ==
  \A w \in Workers :
    /\ NoInputs(w) /\ pc[w] \in {"py_exec", "py_input", "py_eof", "py_except", "py_finally", "done"} =>
         /\ Len(py[w].reads) = ReadsBefore(req[w].prog.body, py[w].ip)
         /\ \A i \in 1..Len(py[w].reads) : py[w].reads[i] = BuiltInRead(i)
    /\ IsPython(w) /\ pc[w] = "py_eof" =>
         req[w].prog.term = "eof" /\ py[w].ip > Len(req[w].prog.body)

\* nine reads of a call whose inputs are absent
C26_Witness ==
  \E w \in Workers :
    /\ IsPython(w) /\ ~req[w].given
    /\ Len(py[w].reads) = 9
    /\ py[w].reads[7] = "yes" /\ py[w].reads[8] = "default" /\ py[w].reads[9] = "default"

\* ---- the status of a sql result
SqlReturned(w) == Returned(w) /\ req[w].language = "sql"
LoopCompleted(w) == sql[w].idx > Len(req[w].stmts)

Responding(w) == InHandler(w) /\ pc[w] = "h_done"

\* C28: for java, sql, r, c, cpp, go, php and typescript the handler calls
\* execute_code exactly once without consulting the compiler and answers
\* success = true whatever the execution status is; for any other language
\* execute_code is called only when the compiler's result reports success;
\* an empty code is answered with 400 before anything is executed.
C28_HandlerCalls ==
  \A w \in Workers :
    /\ InHandler(w) =>
         /\ http[w].calls > 0 =>
               /\ ~http[w].source_code.empty
               /\ http[w].language \in Direct \/ http[w].compiled = "ok"
         /\ http[w].language \in Direct => http[w].compiled = "none"
         /\ http[w].source_code.empty => pc[w] = "h_done" /\ stages[w] = {}
    /\ Responding(w) =>
         IF http[w].source_code.empty THEN http[w].response = "400" /\ http[w].calls = 0
         ELSE IF http[w].language \in Direct
         THEN /\ http[w].calls = 1
              /\ http[w].response = "200"
              /\ http[w].success
              /\ http[w].execution # "none"
         ELSE http[w].calls = (IF http[w].compiled = "ok" THEN 1 ELSE 0)

\* a direct language whose execution failed, answered with success = true
C28_Witness ==
  \E w \in Workers :
    /\ Responding(w)
    /\ http[w].language \in Direct
    /\ http[w].execution = "error"
    /\ http[w].success

====
